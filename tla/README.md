# A TLA+ model of the cs6456 course systems

The repository holds three projects of an operating-systems course: a small
AArch64 kernel grown in stages (`p1`), multithreaded programs that measure
locks (`p2`), and a trusted application for OP-TEE that deciphers images and
keeps objects in secure storage (`p3`).  They share no code.  This directory
models the logic that each of them lives from, checks it with TLC on small
instances, and proves the central results of all three with TLAPS.

Contents: 1 inventory, 2 modules, 3 runs, 4 bounds, 5 fairness, 6 proofs,
7 findings and observations, 8 what is not modelled, 9 plan.

## 1. Inventory

### p1: the kernel

**Scheduler** (`src/p1/p1-5-2/src/{sched,fork,timer,kernel}.c`, `entry.S`,
`sched.S`).  The last stage that has user processes, preemption and sleep at
once; the earlier stages are subsets of it.
- State: `task[64]`, `nr_tasks`, `current`; of each task `state`, `counter`,
  `preempt_count`, its kernel stack with any number of interrupt frames on it;
  `wait_array` and `frq` of the sleep facility.
- Operations: `copy_process`, `exit_process`, `sleep_state`, `schedule`,
  `timer_tick`, `update_wait`, `switch_to` and `cpu_switch_to`,
  `ret_from_fork`.
- Interaction: the timer interrupt enters the kernel between any two
  instructions that run with interrupts enabled, charges `current`, wakes
  sleepers, and may call `_schedule` in the middle of a system call or of
  `_schedule` itself.  `preempt_disable`/`preempt_enable` are the only lock;
  the disable is counted in the task that calls it, the enable that matches it
  runs after a switch and is counted in whoever is `current` then.
- Hard: ticks between the two stores of `sleep_state`; ticks between
  `current = next` and the switch of stacks; counters that go below zero while
  preemption is off; the fallback `next = 0`; zombies that stay in the table.
- Correct when: the preemption count is balanced on every path, the CPU is on
  the stack of `current`, no wakeup is lost, only runnable tasks get the CPU,
  zombies stay dead, counters stay bounded, sleepers wake and runnable tasks
  run.

**Page allocator** (`p1-5-2/src/{mm,sys,kernel}.c`).  State: `mem_map`, the
pages that `task_struct`s and user stacks hold.  Operations: `get_free_page`
(a scan that is preemptible for two of its three callers), `free_page`, and the
malloc, clone, sleep and exit calls of user tasks.  Hard: pages are freed in the
middle of a scan; a failed malloc goes unnoticed, a failed clone drops the page
of its malloc and keeps preemption off.  Correct when no page has two holders
and every page that is marked is in account.

**Virtual memory** (`src/p1/p1_6/src/{mm,fork,sys,kernel}.c`, `entry.S`).
- State: `mem_map`; the pages themselves, as tables and as user memory; of each
  task its `task_struct` page, its `pgd` and `user_pages`; `ind`, the fault
  counter of `do_mem_abort`.
- Operations: `get_free_page`; `map_page` with `map_table` and
  `map_table_entry`; `move_to_user_mode`; `copy_process` with
  `copy_virt_memory`; `do_mem_abort`; `exit_process`, which frees nothing.
- Hard: the test and the mark of `get_free_page` can be separated by a tick, and
  a fork takes up to five pages for each user page of its parent, and may find
  none at each of them; tables that are shared by the pages below them;
  allocations that are not tested, errors that the fork ignores, and a fault
  counter that is one for all tasks and never reset.
- Correct when: page tables are trees that no two tasks share, no page that is
  marked is out of reach, whatever allocation fails, `user_pages` stays inside
  its array, and each task sees memory of its own, zero when new and copied at
  a fork.

**Cooperative scheduler** (`p1_1_to_4/lesson04a`) and **earlier stages**
(`lesson04b`, `p1-5-1`): the scheduler above without the timer, without user
mode, without sleep.  **Boot, vectors, UART, printf**: start-up, device
registers, formatting.

### p2: threads and locks

**Shared counter** (`p2/exp1/counter.c`).  State: `the_counter`, a mutex or a
spinlock, the locals of `add` and of the compare-and-swap loop.  Each thread
adds 1 and then -1 `iterations` times, under a mutex, a spinlock, a CAS loop or
nothing.  Correct when no addition is lost under the three, and main prints 0.

**Sorted lists** (`p2/exp2/SortedList.[ch]`).  State: `next` and `prev`
pointers.  Operations: insert, delete, length, lookup.  Hard: stale pointers of
deleted elements, four stores per insertion.

**List workers** (`p2/exp2/list.c`, `common.c`).  Threads insert a given set of
elements in three builds: one list and one mutex; a list per thread; a list per
thread with parts of the work claimed by test-and-set.  They call the list
operations and take samples.  Correct when every element ends up on exactly one
list, as if each insertion were atomic.

**Tracepoint ring** (`p2/exp2/measure.c`).  State: `samples[]`, `count`.
`k2_measure` is called by the workers under a mutex and by main under none;
`k2_measure_flush` dumps a ring that may have wrapped.

**Hash workers** (`p2/exp2/hash.c`).  Threads insert keys by striding into GLib
tables with a mutex each, and main verifies.

**Scripts, plots, `counter-nolock.c`**: drivers and a skeleton.

### p3: trusted applications

**AES trusted application** (`p3/exp5/aes/ta/aes_ta.c`).  A session holds an
operation handle and a key object and runs PREPARE, SET_KEY, SET_IV, CIPHER and
DETECT; storage commands write, read and delete persistent objects that all
sessions share.  Hard: a failure in the middle of PREPARE, a refused PREPARE
that has changed half of the session, commands of two sessions on one object, a
restart between the creation of an object and its data, removals that fail
without anybody looking at their result.
**Its host** (`aes/host/main.c`) runs these commands in one fixed order.  **Its
earlier versions** (`p3/aes`, `p3/exp4`) lack storage.  **The
hello-world application** (`p3/exp2`) keeps no state.  **The image library and
the OP-TEE tests** are vendored.

## 2. Modules

| module | models | abstract specification it implements |
| --- | --- | --- |
| `TaskLife` | what the kernel promises its tasks | |
| `KernelSched` | the scheduler of p1-5-2 | `TaskLife` |
| `KernelTimed` | `KernelSched` with the timer's distance | |
| `KernelSched_proofs` | theorems about `KernelSched` | |
| `PageAlloc` | the page allocator of p1-5-2 and its callers | |
| `PageAlloc_proofs` | theorems about `PageAlloc` | |
| `AddressSpaces` | what virtual memory promises the tasks | |
| `VirtMem` | the memory of p1_6 | `AddressSpaces` |
| `VirtMem_proofs` | theorems about `VirtMem` | |
| `AtomicCounter` | a counter with atomic additions | |
| `Counter` | counter.c | `AtomicCounter` |
| `Counter_proofs` | theorems about `Counter` | |
| `ElementLists` | what the list functions do, on sequences of elements | |
| `ListHeap` | operators on a heap of list pointers | |
| `SortedList` | a client of the list operations | `ElementLists` |
| `ListWorkers` | list.c, each store a step | `ElementLists` |
| `Lists_proofs` | theorems about `SortedList` and `ListWorkers` | |
| `Measure` | measure.c and its callers | |
| `Measure_proofs` | theorems about `Measure` | |
| `HashWorkers` | hash.c | |
| `HashWorkers_proofs` | theorems about `HashWorkers` | |
| `AesSession` | sessions and handles of aes_ta.c | |
| `ObjectStore` | an atomic object store | |
| `SecureStorage` | the storage commands of aes_ta.c | `ObjectStore` |
| `AesTA` | `AesSession` and `SecureStorage` composed | `ObjectStore` |
| `AesTA_proofs` | theorems about `AesTA` | |

Definitions named `Something_how` preceded by "Mutant" are variants of the
definition below them with a plausible bug.  They are in no specification; each
shows that some property notices it.

**KernelSched.**  A kernel stack is an array of frames.  Frame 0 is the task's
own code, each frame above it a timer interrupt that has re-enabled interrupts
and entered `_schedule`.  The label of a frame is the next statement there, and
an action is one statement that others could tell from its neighbours: the
increment of `preempt_count`, the store to `state`, `nr_tasks++` and the store
to `task[pid]` of a fork (`ForkCount`, `ForkChild`: the scan goes over the slots
that have been filled, the set `task`), each pass of the two loops of
`_schedule`, `current = next`, the load of the stack pointer.  A `Tick` may
come between any two of them: `TickReturn` is the path of `timer_tick` that
returns, `TickPreempt` the one that pushes a frame.  What runs with interrupts
masked (`update_wait`, the charge) is part of the tick.  `sp` is the task whose
stack the CPU is on; `current` is the C global; they differ only inside
`switch_to`.  User code makes any system call at any time.  `leaked` is a
history variable: it counts the failed clones, which return without
`preempt_enable`.

**KernelTimed** adds a counter of the kernel steps since the last tick and lets
the next tick come only after `Gap` of them, or in user mode.  The code's timer
interval is some thousand times the length of `_schedule`.

**PageAlloc** splits `get_free_page` into the steps of its scan; each task has
a scan of its own, and `cpu` is the task that cannot be preempted.  `callers`,
chosen in `Init`, are the tasks whose program allocates: in the shipped one the
first process alone does, and the larger sets show what the allocator gives
away with preemption on.  Tasks exit and sleep in any order, into any point of
such a scan.  `MallocFails` hands out the -1 that its caller does not
recognize. `CloneFails` returns with preemption off for ever (`pinned`): the
address of the page that malloc gave is gone (`lost`), a clone goes on to its
exit, and the first process, whose function has nowhere to return to, keeps the
CPU.  A task on the stack -1 whose exit gives that stack to `free_page` stops
the kernel. `doubled` remembers the pages that were marked though they were
marked already. The scan of `move_to_user_mode` always finds a page, since it
is made when only the page of the first task is taken.

**VirtMem** follows a call that allocates one page at a time.  `See` is the
scan of `get_free_page`, `Mark` the mark, the clearing and what the caller does
with the page; a tick may come between them.  For each user page the call goes
down the levels of the page tables: `Descend` where the table is there,
`NeedTable` where it is not, and `Enter` writes the last entry, fills the page
(with the program, with the parent's contents through the parent's own
translation, or not at all after a fault) and ends the call or goes on to the
next page.  `at` holds the variables of the call, `cpu` the task that has
preemption off, which is how a fork excludes others; a fault and the load do
not, and are safe only because the shipped user program makes them before it
forks.  `NoneLeft` is a scan without a result for a task or for memory, which
each caller takes differently (section 7).  `WithoutTable` is one for a table:
nobody tests it, and `map_page` takes the physical page 0, which is the
firmware's, for the table. Either a word found there sends the kernel out of
memory, and an exception stops it (`halted`), or the words lead back to page 0
and the user page is entered in it (`page0`), recorded and filled like any
other (`Recorded`); then the call ends, a fork with what it has copied so far;
the parent of a fork is whole, and the task whose page it was is "astray": what
it sees through page 0 is not followed, and it counts as ended in
`AddressSpaces`.  The contents of a page are one word, and the size of the
memory is chosen in `Init`, so that memory runs out at every point of every
call.

**Counter** has every load and store of `the_counter` as a step and chooses one
of the four synchronizations at the start.

**ListHeap** has the operators on a heap of pointers (`Linked`, `Unlinked`,
`Intact`, `Contents`, `Length`).  **SortedList** is a client that calls them in
any legal order, deleting an element twice included.  **ListWorkers** takes
each store of an insertion as a step and compares the result with the same
abstract lists.  With fewer parts than threads, which `parse_config` refuses
for the multilists build only, a thread of the biglock build has a range that
lies beyond the keys: it makes itself elements for what it finds there (the
members of `Items` from `the_n_elements` on), or a read outside of the process
ends it (`Segfault`, `killed`).  `ElementLists` describes what the functions
do; that they do not do what their header says is the run `list_order`.  The
walk along `next` is a recursive function of the number of steps left, not a
recursive operator, so that the proofs can reason about it.

**Measure** has the steps of `k2_measure` (slot, stamp, load and store of
`count`) by workers under the mutex and by main without it, before the launch,
while the workers run (`MainRunning` samples; both programs take one) and after
the joins.  `clock` and `taken` are history: when each sample since the last
flush was taken; and `raced` is set once main's call has overlapped a worker's.

**HashWorkers**: GLib's table is external; an insertion reads the table and then
replaces it, which is what makes the mutex necessary.

**AesSession** represents a handle by the key size it was allocated for and the
TEE's side (`tee`) by what it has allocated and what the operation was given.
Each instance serves one command at a time, and a command of several TEE calls
is a step for each call that can fail, with `at` as its program counter:
PREPARE is `Prepare` (or `PrepareRefused`, which has already changed the size),
`AllocateOperation`, `AllocateObject`, `LoadDummyKey`, and from each of them,
if it fails, `PrepareFails`, the code behind `err:`, which frees what there is
at that moment; SET_KEY is `SetKey` (the reset of the key object), `KeyRefused`
when the object does not take the key, and `LoadKey`, the reset of the
operation and its key, which may fail too and then leave the operation with or
without one (`spoilt`).  A misuse of the TEE's interface stops the instance
(`Panic`).  **SecureStorage** splits each storage command into the TEE calls
between which other sessions can act; who may have an object open with whom
follows from the flags in the three commands.  Nobody looks at the result of
the two removals: `WriteFails` leaves the object gone or empty, and `Delete`,
which reports success, leaves it gone or as it was.  **AesTA** lets each open
session run one command of either kind at a time and the TEE restart at any
moment; files survive it, sessions do not.

The TEE core, pthreads and GLib are not in the repository; what is modelled of
them is marked external in `PROJECT.json`.

## 3. Runs

| run | configuration | checks |
| --- | --- | --- |
| `kernel_safety` | `KernelSched_safety.cfg` | the scheduler's safety under every placement of ticks, with failing clones; the inductive invariant; `ImplementsLife` |
| `kernel_progress` | `KernelTimed_live.cfg` | `SleeperWakes`, `RunnableRuns`, with failing clones |
| `pages` | `PageAlloc_pages.cfg` | `PagesAccounted` for every set of allocating tasks, beyond the exhaustion of memory |
| `address_spaces` | `VirtMem_spaces.cfg` | who holds which page, `UserPagesFit`, the address spaces that the page tables give, for every size of memory, tables refused included |
| `counter` | `Counter_safety.cfg` | exactness under the locks and the CAS loop, drift without, retries, termination, refinement |
| `list_operations` | `SortedList_ops.cfg` | pointer operations against sequences |
| `list_order` | `SortedList_order.cfg` | violation, see 7 |
| `list_workers` | `ListWorkers_all.cfg` | the three builds of list.c, with as many parts as threads, fewer and more, that do and do not divide the elements |
| `measure_ring` | `Measure_ring.cfg` | the ring, with main's sample among those of the workers |
| `measure_race` | `Measure_race.cfg` | violation, see 7 |
| `hash_workers` | `HashWorkers_all.cfg` | keys stay where they were put; "Identical" is always printed |
| `aes_ta` | `AesTA_all.cfg` | handles, keys and the object store, with a failure of each TEE call that can fail, panics and restarts |

What the properties say:

- `PreemptCounted`: `preempt_count` is what the task's own stack accounts for,
  although the disable and the enable around a switch run with different values
  of `current`; a failed clone leaves it one too high for ever.
- `StackOwner`: outside the window of `switch_to` the CPU is on the stack of
  `current`; inside it both tasks hold preemption off, so a tick there charges
  the wrong task but switches nothing.
- `NoLostWakeup`: a task in `TASK_WAIT` has a wakeup to come.
- `DispatchRunnable`, `DeadStaysDead`, `CounterBound`: as named; the first
  covers the fallback to task 0.
- `ImplementsLife`: with the stacks, counters and ticks hidden, the kernel is
  the life cycle of `TaskLife`: sleepers get ready exactly after the seconds
  they asked for.
- `RunnableRuns`: every runnable task gets the CPU, or there is a task that
  keeps it: one whose clone has failed, from some time on in user mode for ever
  (`Hogged`).  Without that case the property is false in the code, since no
  tick takes the CPU from a task with `preempt_count` above 0.
- `PagesAccounted`: when one task allocates, as in the shipped program, no page
  is marked twice, although others free pages in the middle of its scan;
  whoever allocates, `copy_process` never takes a page that is taken; and a
  page that has not been marked twice is marked exactly when it has a holder,
  one and no more, or was lost by a failed clone.
- `PagesOwned`: over task structs, page directories, tables and user pages of
  all tasks, a page is held once and is marked.  `NoPageLost`: whichever
  allocation is refused, that of a table included, a page that is marked can be
  found again from a task, from a call that is still under way, from a table,
  or from the one word of page 0 that a user page was entered in.
- `UserPagesFit`: `map_page` writes `user_pages` without a test; the limit of
  `do_mem_abort`, which counts the faults of all tasks together, is all that
  keeps it in bounds.
- `ImplementsSpaces`: read through the page tables, each task has memory that
  only it writes; a child starts with a copy, and gets less only when memory has
  run out.
- `Exact`, `ZeroAtJoin`, `DriftBound`, `ImplementsAtomic`: the counter is the
  sum of the additions that took effect; without synchronization it may be off,
  by no more than the number of additions.  `RetriesPaid`: a read of the
  compare-and-swap loop gets stale only when another thread's addition goes
  through, so that no retry is made in vain.
- `DeleteTellsMembers`: the test before an unlink tells members from
  non-members, however stale the pointers; a second deletion harms nothing.
  `LengthCounts`: the corruption check gives no false alarm.
- `AllOnce`, `WholeInsertions`, `Joins`: each element of the parts is on one
  list exactly once, with elements that the program does not have only in a
  biglock run with fewer parts than threads; every interleaving of stores is a
  sequence of whole insertions; and main returns from its joins, or a thread
  has left the keys and the process has died of it.
- `KeysStay`: an insertion that has returned is not undone by another thread's
  insertion into the same table.  `Verifies`: the run ends and main has found
  every key.
- `RingHoldsLatest`, `DumpsLatest`: until main's call has overlapped a worker's,
  slots and dump are the latest samples in order at every position of the wrap;
  after that samples may be missing, but the count and the dump never have more
  than were taken.
- `HandlesOwned`: after each TEE call of each command, those that fail and
  those of the cleanup included, what the TEE has allocated is what the
  session's handles stand for; no path leaks a handle or frees one twice.
  `OperationKeyed`: between two commands an operation has a key, unless
  `TEE_SetOperationKey` itself failed in the last SET_KEY; one with a vector
  always has.  `ImplementsStore`: an object being written is absent to all
  others until it is whole, an object being deleted is read by nobody, and only
  a WRITE that a crash or an unnoticed failure cut short leaves one empty
  (`Abandon`).

## 4. Bounds

- `NR_TASKS` 3 instead of 64: task 0, the process that forks, sleeps and exits,
  and one more that it can race with.  The code has no test against the size of
  the table; the model stops forking when it is full.
- `MaxDepth` 2 interrupt frames: a tick in `_schedule` of an interrupt frame
  needs two.  `MaxOverrun` 1: counters down to -1 suffice to reach the fallback
  `next = 0` and `if (c)` with c = -1.  `MaxLeak` 1: one failed clone of
  each task.
  `Priority` 1 gives quantum and recharge their smallest non-trivial values;
  `TicksPerSec` 1 and `Seconds` {1, 2} let a sleep end at the first pass of
  `update_wait` or not.  The theorems of section 6 hold for all values.
- `kernel_progress`: `Gap` 20 is more than the steps of one `_schedule` with a
  recharge for three tasks (16 steps), so every pass can end before the next
  tick.  Clones fail here as well, and a counter that has come down to
  `-MaxOverrun` stays there: a task that holds preemption off is charged for
  ever, and all counters below 0 are alike to the scan.
- Six pages and four tasks, any of which allocate: eight pages would hold the
  first task and three clones, so that with six both mallocs and clones fail.
- `address_spaces`: `Init` chooses each size of memory from 1 to `PAGING_PAGES`
  16.  A loaded task holds six pages with that of its struct, a second user
  page needs up to three more, and a fork as many again.  Sixteen hold a parent
  and a whole child, so that their own forks meet, and the smaller sizes
  exhaust memory at each place of each call.  Four tasks are the parent, two
  children and a grandchild. `PTRS_PER_TABLE` 2 instead of 512 makes the pages
  0 to 3 share the last level or only the one above.  `MAX_PROCESS_PAGES` is 3
  where the code has 16: three is the most that the code can reach, so a fourth
  page would be seen.
- Three threads with two iterations each are enough for a lost update between
  two others and for a retry of a retry; 2, 3 and 4 parts of 6 elements are
  fewer than the three threads, as many, and more, and divide or do not divide.
  Four list elements give two neighbours on each side of a deletion, on two
  lists.
- A ring of three slots, two workers with two samples and up to four of main's,
  alone, and one among the workers', wraps at every position.
- Two AES sessions on one object with two data: conflicts are pairwise.

`CHECK_DEADLOCK FALSE` is used in `pages` and `address_spaces`, whose tasks all
exit, hang or stop the kernel.  The thread programs have an `Exited` step
instead, so a real deadlock is reported.

## 5. Fairness

*Threads of p2*: weak fairness of each thread and of main's join.  The Linux
scheduler gives every ready thread CPU time; a thread that waits for a lock is
disabled, and no run needs strong fairness, because each thread takes each lock
finitely often.

*Kernel*: weak fairness of the kernel's steps and of the ticks: the CPU executes
and the timer runs.  User code is under no obligation: it may compute for ever,
and is preempted, unless one of its clones has failed (`Hogged`).  Plain weak fairness is not enough.  TLC then finds a run in
which a tick falls into every pass of `_schedule`: the counters of the tasks
that hold preemption off go below zero, `c` stays -1, the loop ends without a
recharge, and task 0 is chosen each time while a runnable task with a negative
counter never is.  That takes ticks a thousand times faster than the hardware's
100 ms, so the progress properties are checked in `KernelTimed`, where `Gap`
kernel steps lie between two ticks, except in user mode.

## 6. Proofs

Proved by TLAPS, for all values of the constants that satisfy the named
assumptions:

**`KernelSched_proofs`** (from `ConstantAssumption`: at least two slots, a
positive priority, positive lengths of sleep): `TypeCorrect`, `PreemptBalance`,
`StackSafety`, `WakeupSafety`, `CounterSafety`, `DispatchSafety`,
`ZombieSafety`, `Refinement`.  All rest on `Invariant`: `Spec => []IInv`.  None
of the properties is inductive alone.  That preemption is off inside
`_schedule` follows from the count, which follows from the labels of the parked
stacks, which follow from the fact that a switch only happens with preemption
off: hence `IInv` says of every stack which labels its frames may have (the own
frame of task 0 is never in a user system call, interrupt frames are only in
`_schedule`, a parked task is behind `cpu_switch_to` or has not started), of
every count what the top label makes it, of `nx` in a scan that it is a task
that can run, and of task 0 that it is always runnable, because it neither
sleeps nor exits.  The last is what makes the fallback `next = 0` safe.  That a
candidate remembered by the scan is still runnable when it is chosen follows
because only a task that is itself on the CPU sleeps or exits, and the CPU is
in the scan.  The proof takes the actions of `Next` one by one; the lemmas
about frames and labels come first.

**`Counter_proofs`** (from `CounterAssumption` and `NoThreadAssumption`):
`Invariant`, `TypeCorrect`, `ExactCount`, `FinalCount`, `BoundedDrift`,
`Refinement`, `NoDeadlock`, `LockFree` (`RetriesPaid`), about all four kinds of
synchronization at once.  The
strengthening says that a thread is inside its critical section exactly when it
holds the lock, that what a synchronized thread has computed there is the
counter's value plus its addition, and that a thread in an addition has one left
to make.  From it each step maps to one atomic addition or to none.  `Exact`
says that the counter is the number of the +1s less the number of the -1s that
took effect; these are finite sets of pairs (thread, number of its addition),
and a lemma shows that one addition puts one new pair into one of them.
`FinalCount` follows because at the join both sets are complete and have the
same size.  `BoundedDrift`, without any synchronization, needs that what a
thread has read was within the bound when it read it, and that the additions
made only grow.

The last two are what `Joins` needs besides fairness.  `NoDeadlock`: whoever
holds the lock is inside its critical section and can step.  `LockFree`
measures how far a thread has come (`Behind`, at most `4 * Additions + 1`):
each statement takes its thread further and leaves the others where they are,
but for a swap that fails; and a swap fails only on a stale read, which only an
addition of another thread makes stale.

**`VirtMem_proofs`** (from `MemoryAssumption`): `Invariant`, `TypeCorrect`,
`Ownership` (`PagesOwned`), and `UserPagesInBounds` (`UserPagesFit`) under the
further assumption `MAX_PROCESS_PAGES >= 3`, which the code's 16 satisfies.
`PagesOwned` alone is not inductive: nothing in it keeps a second call from
marking the page that a first has seen, or from entering a second user page in
page 0 over the first.  `IInv` adds that at most one call allocates at a time
(`Undisturbed`: a fork holds the CPU, and the load and the faults have no one
to share it with), that the page seen is still unmarked, that once page 0 has
been taken for a table no call gets as far again (`OnceOnly`: no page is left,
and nothing is ever freed), that a marked page has been cleared so that no junk
in it passes for an entry, and how many pages a task can have for the faults
counted so far. On top of it `SpacesInvariant` (`SInv`) carries `NothingLost`
(`NoPageLost`) and `ImplementsThem` (`ImplementsSpaces`).  It says that the
page tables of a task are reached from its own directory only, so that two
walks that meet anywhere have taken the same way (`WalksMeet`, `OwnPage`); that
a page that is not marked has never been used (`Fresh`); that the walk of every
user page through four levels ends at the page entered for it, for the tasks
that are not astray (`Maps`); where a call has got to on its way down
(`WalkOK`); and that a fork under way has given the child a copy of exactly the
pages it has passed (`CopyOK`).  The parent's translation is read through the
same walk, which is why the copy is the parent's own word even while the
child's tables grow.

**`Lists_proofs`**, first part (from `ListsAssumption`: finitely many nodes,
heads that are not elements, a garbage pointer that is neither): `Invariant`,
`TypeCorrect`, `DeletesMembers` (`DeleteTellsMembers`), `CountsAll`
(`LengthCounts`), `ImplementsThem` (`ImplementsLists`) of `SortedList`.  None
of these speaks of pointers in a form that a step preserves.  `IInv` does:
there is a function from heads to sequences of elements, no element twice
(`Once`), such that `next` leads from each place of a sequence to the following
one and `prev` back (`Holds`), and the element that a deleted element's stale
`next` names does not point back to it (`Stale`).  `Linked` and `Unlinked` keep
that for the sequence with one element more or less.  What `Contents` computes
from such a heap is that sequence (`ContentsAre`): the walk is a function of
the number of its steps, and the lemma `Numbers`, induction stated about a set
of numbers, serves to unfold it.

Second part, about `ListWorkers` (from `WorkersAssumption`):
`WorkersInvariant`, `WorkersAllOnce` (`AllOnce`), `WorkersImplement`
(`WholeInsertions`), `WorkersNoDeadlock`, `WorkersGoOn`, for any number of
threads, iterations and parts and all three builds.  Between two stores of an
insertion the heap is not that of any lists: after `curr->prev->next = element`
the node that was the first still points back to the head.  `WInv` therefore
asks of `next` that it is right at any time, and of `prev` that it is right but
for the nodes that some thread is about to store to (`Pending`).  That a
thread's `curr` is still the first node when it stores needs that no two
threads are inside an insertion into the same list, which is the mutex in the
biglock build (`Exclusive`) and the list per thread in the others (`Alone`).
That no element comes twice needs the parts: a part that is worked on has one
thread (`OnePart`), its elements below `i` are on the lists and the others not
(`OwnItems`), nothing of an unclaimed part is on a list, and all of a part that
has been left is.  The last, with what a thread of the lb build knows of the
parts it has gone past, gives `AllOnce` after the joins.  `WorkersGoOn` counts
how far a thread has come through its parts, `Stride` (`5 * per_part + 2`) for
each and the statements made on the present one: every statement takes its
thread further, a part that it finds claimed included, and `Stride * numParts +
2` is the end.

**`PageAlloc_proofs`** (from `PageAssumption`): `Invariant`, `NoPageTwice`
(`PagesAccounted`), for any memory, any tasks and any set of callers.  A scan
of `copy_process` has the CPU for itself, so what it has seen free is free when
it marks it (`Exclusive`).  The same holds of a malloc when one task allocates:
exits free pages during its scan but nobody takes one (`Alone`).  What is
allocated has an empty place to go to (`Asked`), and for a page not marked
twice the mark, the one holder and the loss by a failed clone are in account
(`Account`).  A page marked twice is exempt from then on: whose exit frees it
is not followed.

**`HashWorkers_proofs`** (from `HashAssumption`): `Invariant`, `KeysSaved`
(`KeysStay`), `NeverFails`, `NoDeadlock`, `GoesOn`: main never finds a key
missing, the mutexes never leave all workers waiting, and each worker ends after
`4 * iterations + 1` statements at most, for any number of workers, iterations
and tables.  A thread holds the mutex of the table that
its key selects from the read to the unlock, what it has read is still the
table when it writes, and a key is in the table that its value selects as soon
as its thread has gone on to the next; striding gives each key a thread.

**`Measure_proofs`** (from `MeasureAssumption`): `Invariant`, `LatestInRing`,
`FlushesLatest`, for rings of any size and any number of samples that main
takes among the workers'.  As long as main's call has not overlapped a
worker's, one caller at a time is inside `k2_measure` (`OneAtATime`), the count
is behind by exactly the sample being taken (`CountInv`), and the latest
samples are at the slots below the count modulo `NR_SAMPLES` (`Ring`).
Afterwards one worker and main may be inside together, and what remains is a
bound: the count with what the two are about to add to it, and each value about
to be stored, is no more than what has been taken (`Bounded`).  Lemmas on
quotients and remainders show that fewer than `NR_SAMPLES` consecutive counts
never meet in a slot.

**`AesTA_proofs`** (from `KeySizesAssumption` and `StorageAssumption`):
`Invariant`, `TypeCorrect`, `NothingLeaks` (`HandlesOwned`), `AlwaysKeyed`
(`OperationKeyed`), `Implements` (`ImplementsStore`), for any number of
sessions and objects.  The strengthening says at which TEE call of a PREPARE or
SET_KEY a session has which of its two handles, and when its operation may be
without a key (`Paired`); that two sessions have one object open only when both
read it, and that an object being written is empty and one being read or
deleted is there. With it each step maps to one of `ObjectStore` or to none.

TLC checks the same properties, and `IInv` in `kernel_safety`.  Every invariant
and every action property of a passing run has its theorem.  Only model-checked
are the five liveness properties, which need fairness and `ENABLED` and so are
out of the prover's reach:

- `Joins` of the counter and of the list workers, and `Verifies` of the hash
  workers.  Their safety halves are proved: no deadlock, and a bound on the
  statements of a thread (for the compare-and-swap loop: of the statements
  between two additions).  What is left to TLC is that fairness turns these
  into an end. `CanStep` spells out the guard of a thread's next statement,
  since `ENABLED` cannot be reasoned about; TLC's deadlock check covers the
  same ground.
- `SleeperWakes` and `RunnableRuns` of `KernelTimed`.  Proved are `WakeupSafety`
  (a sleeping task always has a wakeup to come) and `Refinement` (it comes after
  the seconds asked for); that ticks keep coming, and that a task once ready is
  chosen in the end, rest on the model checker alone.

Nothing is proved of `KernelTimed` itself; its steps are steps of `KernelSched`
that keep a count besides.

## 7. Findings and observations

Disagreements that a run demonstrates:

- `list_order`: `SortedList.h:50` promises a list "kept sorted in ascending
  order based on associated keys"; the loop that looks for the place of a key
  is compiled out (`SortedList.c:18`), and an insertion puts every element in
  front. `StaysSorted` fails after two insertions.
- `measure_race`: `count` is documented as the number of samples since the last
  flush; main's sample after the launch takes no mutex, its `count++` races with
  the workers', and a sample is lost.

Observations made while reading, which the models do not show or do not turn
into a property:

- `list.c:152`: when `--parts` does not divide the number of elements the rest
  of them belongs to no part and is never inserted, while `list.c:330` reports
  `iterations * numThreads` operations.  `AllOnce` says it of the elements of
  the parts.
- `common.c:159`: only the multilists build insists on a part per thread.  A
  biglock run with fewer parts sends threads beyond the keys (`list.c:195`).
- `measure.c:150`: the delta of the first line of a wrapped dump is taken
  against a slot of another time; `measure.c:94` counts the overflow one sample
  early.
- `p1-5-2/src/kernel.c:64`: `stack < 0` on an unsigned value; a failed malloc is
  never noticed, and the task is cloned onto the stack -1.
- `p1-5-2/src/kernel.c:69`: after a failed clone the page of its stack is
  dropped (`lost` in `PageAlloc`).
- `p1-5-2/src/mm.c:8`: two tasks whose mallocs are both between the test and
  the mark of `mem_map` get the same page (`doubled`); the shipped program has
  one such task.
- `p1-5-2/src/fork.c:14`: the failing path of `copy_process` leaves preemption
  disabled for ever; `leaked` and `pinned` carry this through the models, and
  `RunnableRuns` says what it costs.
- `fork.c` writes `task[pid]` without a test against `NR_TASKS`.
- `p1_6/src/fork.c:16`: the same path again, in the kernel with virtual memory.
- `p1_6/src/fork.c:26`: the error of `copy_virt_memory` is ignored; the fork
  reports success and the child has part of its parent's pages.
  `AddressSpaces` allows this when memory has run out, and only then.
- `p1_6/src/mm.c:54`: a table is allocated without a test, so that without a
  page left the physical page 0 is taken for one (`WithoutTable`).
- `p1_6/src/mm.c:152`: `ind` is never reset, so that the second fault of the
  whole system is answered with an error although it has mapped its page.
- `p1_6/src/entry.S:193`: `far_el1` and `esr_el1` are read after `enable_irq`;
  an interrupt in between that switches to a task that faults would leave its
  values there.  No task can fault then in the shipped program.
- `aes_ta.c:651`: DETECT sets the session's mode to encode but not that of the
  operation, so what it returns as the encrypted plate was deciphered again.
- `aes_ta.c:336`: a PREPARE refused for its mode has changed the key size, so
  that a following SET_KEY wants a key of the new size for the old operation.
- `aes_ta.c:249`: the result of `TEE_CloseAndDeletePersistentObject1` is
  ignored; DELETE reports success for an object that may still be there.
  `aes_ta.c:115`: the same in a failed WRITE, which may leave its object empty.
- `aes_ta.c:477`: when `TEE_PopulateTransientObject` refuses the client's key,
  SET_KEY returns an error and the operation goes on with the key it had
  before.
- `aes_ta.c:389`: the buffer of the dummy key is freed on no path.

## 8. Not modelled

Register contents, page-table bits, device registers, strings, CSV, colours and
timing; the bytes that are ciphered and the plate detection; what two tasks of
p1-5-2 do to each other through a page that both were given; the size test that
a full task table lacks; sleeps for zero or negative times, which the shipped
programs do not make; the TEE's own checks on keys beyond their size.

Of list.c: `--parts 0`, a division by zero, and, when the elements are allocated
in advance, what a biglock thread without a part writes behind them.

Of p1_6: `map_timer_reg`, whose pages are taken as lying outside the memory
considered, the list `kernel_pages`, which nothing reads, `free_page`, which
nothing calls; once page 0, where the firmware is, has been taken for a table,
what a task sees through it ("astray"), and a word found there that leads into
the memory of others.  The scheduling of its tasks is that of `KernelSched`;
`VirtMem` lets any task run at any step unless preemption is off.

`counter-nolock.c`, lesson04a, lesson04b and p1-5-1 repeat what is modelled with
parts missing.  The hello-world application and the hosts keep no state.
Vendored code (`sod.c`, `optee_test`, OpenSSL headers) is left out; it is nearly
all of the repository's lines.

## 9. Plan

Done, in this order: the scheduler (`KernelSched`, `TaskLife`, `KernelTimed`);
the programs of p2 and the page allocator; the trusted application; the virtual
memory of p1_6; the proofs of section 6; the paths on which a clone, a table or
a TEE call fails.  Left: what the holders of a page that was handed out twice do
to each other in `PageAlloc`.
