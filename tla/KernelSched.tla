---------------------------- MODULE KernelSched -----------------------------
(***************************************************************************)
(* The preemptive scheduler of the kernel in p1/p1-5-2: fork, exit, sleep, *)
(* the timer interrupt, and the context switch, on one core.               *)
(*                                                                         *)
(* The CPU executes on the kernel stack of task sp; the global `current'   *)
(* says whose task_struct the code uses.  The two differ only between      *)
(* `current = next' and the load of next's sp in cpu_switch_to.            *)
(*                                                                         *)
(* A kernel stack is an array of frames: frame 0 is the task's own code (a *)
(* system call, the kernel thread, kernel_main), each frame above it is a  *)
(* timer interrupt that has re-enabled interrupts and entered _schedule.   *)
(* A frame's label l names the next statement to execute there.  The       *)
(* handler up to enable_irq runs with interrupts masked, hence in one      *)
(* step; everywhere else an interrupt may come between two steps.          *)
(***************************************************************************)
EXTENDS Integers

CONSTANTS NR_TASKS,     \* slots of the task table
          Priority,     \* priority of INIT_TASK, inherited by every child
          TicksPerSec,  \* timer ticks between two passes of update_wait
          Seconds,      \* arguments user code passes to call_sys_sleep
          MayFail,      \* can get_free_page find no page for a user's clone?
          MaxDepth,     \* bound: interrupt frames on one stack
          MaxOverrun,   \* bound: how far below 0 ticks may take a counter
          MaxLeak       \* bound: clones of one task that fail

ASSUME ConstantAssumption ==
  /\ NR_TASKS \in Nat /\ NR_TASKS >= 2
  /\ Priority \in Nat \ {0}
  /\ TicksPerSec \in Nat \ {0}
  /\ Seconds \subseteq Nat \ {0}
  /\ MayFail \in BOOLEAN
  /\ MaxDepth \in Nat \ {0}
  /\ MaxOverrun \in Nat \ {0}
  /\ MaxLeak \in Nat

VARIABLES nr_tasks,       \* slots given out: 0 .. nr_tasks - 1
          task,           \* slots that hold a task: task[i] is not 0
          current,        \* the task whose task_struct the kernel uses
          sp,             \* the task whose kernel stack the CPU is on
          state,          \* p->state
          counter,        \* p->counter
          preempt_count,  \* p->preempt_count
          wait_array,     \* seconds left to sleep, -1 when not asleep
          frq,            \* ticks since the last pass of update_wait
          level,          \* index of the top frame of each kernel stack
          frame,          \* the frames of each kernel stack
          leaked          \* history: failed clones of each task

vars == <<nr_tasks, task, current, sp, state, counter, preempt_count, wait_array,
          frq, level, frame, leaked>>

Tasks == 0 .. NR_TASKS - 1
Live == task

TASK_RUNNING == "TASK_RUNNING"
TASK_ZOMBIE == "TASK_ZOMBIE"
TASK_WAIT == "TASK_WAIT"

(* Labels at which the frame has done a preempt_disable not yet undone ... *)
Holding == {"fork", "fork_set", "fork_en", "exit", "exit_en", "sleep", "sleep_set",
            "sleep_en", "scan", "recharge", "switch_to", "cpu_switch_to",
            "sched_en", "ret_from_fork"}
(* ... and those at which it has not.                                      *)
Preemptible == {"none", "boot", "main", "kthread", "user", "schedule",
                "_schedule", "irq_ret"}

(* i, c, nx are the locals i, c, next of _schedule; i is also the argument *)
(* of sleep_state, the local pid of copy_process, and the PF_KTHREAD flag  *)
(* of a task not yet started.                                              *)
Frame == [l : Holding \union Preemptible, i : Nat, c : Int, nx : Tasks]
At(l) == [l |-> l, i |-> 0, c |-> 0, nx |-> 0]

Init ==
  /\ nr_tasks = 1
  /\ task = {0}
  /\ current = 0
  /\ sp = 0
  /\ state = [t \in Tasks |-> TASK_RUNNING]
  /\ counter = [t \in Tasks |-> 0]
  /\ preempt_count = [t \in Tasks |-> 0]
  /\ wait_array = [t \in Tasks |-> -1]
  /\ frq = 0
  /\ level = [t \in Tasks |-> 0]
  /\ frame = [t \in Tasks |-> [k \in 0 .. MaxDepth |->
                At(IF t = 0 /\ k = 0 THEN "boot" ELSE "none")]]
  /\ leaked = [t \in Tasks |-> 0]

-----------------------------------------------------------------------------
(* The frame the CPU executes, and its replacement by f.                   *)
top == frame[sp][level[sp]]
Becomes(f) == frame' = [frame EXCEPT ![sp][level[sp]] = f]
Goto(from, to) == top.l = from /\ Becomes(At(to))

preempt_disable ==
  preempt_count' = [preempt_count EXCEPT ![current] = @ + 1]
preempt_enable ==
  preempt_count' = [preempt_count EXCEPT ![current] = @ - 1]

(* Where a task's own frame goes on when the system call is done: back to  *)
(* user mode, or into the loop of kernel_main.                             *)
Base(t) == IF t = 0 THEN "main" ELSE "user"

-----------------------------------------------------------------------------
(* Mutant: copy_process leaves preemption enabled.                         *)
ForkEnter_preemptible ==
  /\ top.l \in {"boot", "user"}
  /\ nr_tasks < NR_TASKS
  /\ Becomes(At("fork"))
  /\ UNCHANGED <<nr_tasks, task, current, sp, state, counter, preempt_count,
                 wait_array, frq, level, leaked>>

(* copy_process: the first call is kernel_main's, the others are sys_clone *)
(* from user mode.  nr_tasks < NR_TASKS bounds the model; the code has no  *)
(* such test and would write past task[].                                  *)
ForkEnter ==
  /\ top.l \in {"boot", "user"}
  /\ nr_tasks < NR_TASKS
  /\ preempt_disable
  /\ Becomes(At("fork"))
  /\ UNCHANGED <<nr_tasks, task, current, sp, state, counter, wait_array, frq,
                 level, leaked>>

(* pid = nr_tasks++, when the page and the fields of the child are there.  *)
ForkCount ==
  /\ top.l = "fork"
  /\ nr_tasks' = nr_tasks + 1
  /\ Becomes([At("fork_set") EXCEPT !.i = nr_tasks])
  /\ UNCHANGED <<task, current, sp, state, counter, preempt_count, wait_array,
                 frq, level, leaked>>

(* Mutant: the child's preempt_count is left at 0.                         *)
ForkChild_uncounted ==
  LET pid == top.i
      flag == IF current = 0 THEN 1 ELSE 0
  IN  /\ top.l = "fork_set"
      /\ task' = task \union {pid}
      /\ state' = [state EXCEPT ![pid] = TASK_RUNNING]
      /\ counter' = [counter EXCEPT ![pid] = Priority]
      /\ frame' = [frame EXCEPT ![pid][0] = [At("ret_from_fork") EXCEPT !.i = flag],
                                ![sp][level[sp]] = At("fork_en")]
      /\ UNCHANGED <<nr_tasks, current, sp, preempt_count, wait_array, frq, level, leaked>>

(* task[pid] = p: the scheduler sees the child, whose fields were written  *)
(* before.  Its frame makes it start in ret_from_fork, preemption disabled. *)
ForkChild ==
  LET pid == top.i
      flag == IF current = 0 THEN 1 ELSE 0    \* PF_KTHREAD
  IN  /\ top.l = "fork_set"
      /\ task' = task \union {pid}
      /\ state' = [state EXCEPT ![pid] = TASK_RUNNING]
      /\ counter' = [counter EXCEPT ![pid] = Priority]
      /\ preempt_count' = [preempt_count EXCEPT ![pid] = 1]
      /\ frame' = [frame EXCEPT ![pid][0] = [At("ret_from_fork") EXCEPT !.i = flag],
                                ![sp][level[sp]] = At("fork_en")]
      /\ UNCHANGED <<nr_tasks, current, sp, wait_array, frq, level, leaked>>

(* No page: return -1, leaving out the preempt_enable.                     *)
ForkFail ==
  /\ MayFail
  /\ top.l = "fork"
  /\ current # 0
  /\ leaked[current] < MaxLeak
  /\ Becomes(At("user"))
  /\ leaked' = [leaked EXCEPT ![current] = @ + 1]
  /\ UNCHANGED <<nr_tasks, task, current, sp, state, counter, preempt_count,
                 wait_array, frq, level>>

ForkLeave ==
  /\ Goto("fork_en", Base(sp))
  /\ preempt_enable
  /\ UNCHANGED <<nr_tasks, task, current, sp, state, counter, wait_array, frq,
                 level, leaked>>

(* ret_from_fork: schedule_tail, then the kernel thread or user mode.      *)
RetFromFork ==
  /\ top.l = "ret_from_fork"
  /\ preempt_enable
  /\ Becomes(At(IF top.i = 1 THEN "kthread" ELSE "user"))
  /\ UNCHANGED <<nr_tasks, task, current, sp, state, counter, wait_array, frq,
                 level, leaked>>

(* kernel_process ends in ret_to_user, after move_to_user_mode.            *)
KernelProcess ==
  /\ Goto("kthread", "user")
  /\ UNCHANGED <<nr_tasks, task, current, sp, state, counter, preempt_count,
                 wait_array, frq, level, leaked>>

-----------------------------------------------------------------------------
(* exit_process *)
ExitEnter ==
  /\ Goto("user", "exit")
  /\ preempt_disable
  /\ UNCHANGED <<nr_tasks, task, current, sp, state, counter, wait_array, frq,
                 level, leaked>>

ExitZombie ==
  /\ Goto("exit", "exit_en")
  /\ state' = [state EXCEPT ![current] = TASK_ZOMBIE]
  /\ UNCHANGED <<nr_tasks, task, current, sp, counter, preempt_count, wait_array,
                 frq, level, leaked>>

(* Mutant: exit_process goes on to schedule() without preempt_enable.      *)
ExitLeave_noenable ==
  /\ Goto("exit_en", "schedule")
  /\ UNCHANGED <<nr_tasks, task, current, sp, state, counter, preempt_count,
                 wait_array, frq, level, leaked>>

ExitLeave ==
  /\ Goto("exit_en", "schedule")
  /\ preempt_enable
  /\ UNCHANGED <<nr_tasks, task, current, sp, state, counter, wait_array, frq,
                 level, leaked>>

-----------------------------------------------------------------------------
(* sleep_state.  Its two early returns are unreachable: the caller is in   *)
(* task[], and SleepRightly says it is not in TASK_WAIT.                   *)
SleepEnter ==
  /\ top.l = "user"
  /\ \E second \in Seconds : Becomes([At("sleep") EXCEPT !.i = second])
  /\ preempt_disable
  /\ UNCHANGED <<nr_tasks, task, current, sp, state, counter, wait_array, frq,
                 level, leaked>>

SleepWait ==
  /\ top.l = "sleep"
  /\ state[current] # TASK_WAIT
  /\ Becomes([top EXCEPT !.l = "sleep_set"])
  /\ state' = [state EXCEPT ![current] = TASK_WAIT]
  /\ UNCHANGED <<nr_tasks, task, current, sp, counter, preempt_count, wait_array,
                 frq, level, leaked>>

SleepSet ==
  /\ Goto("sleep_set", "sleep_en")
  /\ wait_array' = [wait_array EXCEPT ![current] = top.i]
  /\ UNCHANGED <<nr_tasks, task, current, sp, state, counter, preempt_count, frq,
                 level, leaked>>

SleepLeave ==
  /\ Goto("sleep_en", "schedule")
  /\ preempt_enable
  /\ UNCHANGED <<nr_tasks, task, current, sp, state, counter, wait_array, frq,
                 level, leaked>>

-----------------------------------------------------------------------------
(* schedule(), called by exit_process, sleep_state and kernel_main's loop. *)
Schedule ==
  /\ top.l \in {"schedule", "main"}
  /\ counter' = [counter EXCEPT ![current] = 0]
  /\ Becomes(At("_schedule"))
  /\ UNCHANGED <<nr_tasks, task, current, sp, state, preempt_count, wait_array,
                 frq, level, leaked>>

ScanStart == [l |-> "scan", i |-> 0, c |-> -1, nx |-> 0]

(* Mutant: _schedule does not disable preemption.                          *)
SchedEnter_preemptible ==
  /\ top.l = "_schedule"
  /\ Becomes(ScanStart)
  /\ UNCHANGED <<nr_tasks, task, current, sp, state, counter, preempt_count,
                 wait_array, frq, level, leaked>>

SchedEnter ==
  /\ top.l = "_schedule"
  /\ preempt_disable
  /\ Becomes(ScanStart)
  /\ UNCHANGED <<nr_tasks, task, current, sp, state, counter, wait_array, frq,
                 level, leaked>>

(* Mutant: the loop of _schedule forgets the state of the task.            *)
Better_anystate(p) == p \in Live /\ counter[p] > top.c

(* One pass of the loop that looks for the largest counter.                *)
Better(p) == p \in Live /\ state[p] = TASK_RUNNING /\ counter[p] > top.c

Scan ==
  /\ top.l = "scan"
  /\ top.i < NR_TASKS
  /\ Becomes(IF Better(top.i)
             THEN [l |-> "scan", i |-> top.i + 1, c |-> counter[top.i], nx |-> top.i]
             ELSE [top EXCEPT !.i = @ + 1])
  /\ UNCHANGED <<nr_tasks, task, current, sp, state, counter, preempt_count,
                 wait_array, frq, level, leaked>>

(* Mutant: the counters are not recharged when they are all used up.       *)
ScanEnd_norecharge ==
  /\ top.l = "scan"
  /\ top.i = NR_TASKS
  /\ Becomes([At("switch_to") EXCEPT !.nx = top.nx])
  /\ UNCHANGED <<nr_tasks, task, current, sp, state, counter, preempt_count,
                 wait_array, frq, level, leaked>>

(* if (c) break: any c but 0 leaves the loop, the initial -1 too.          *)
ScanEnd ==
  /\ top.l = "scan"
  /\ top.i = NR_TASKS
  /\ Becomes(IF top.c # 0 THEN [At("switch_to") EXCEPT !.nx = top.nx]
                          ELSE At("recharge"))
  /\ UNCHANGED <<nr_tasks, task, current, sp, state, counter, preempt_count,
                 wait_array, frq, level, leaked>>

(* Mutant: the recharge adds the priority without halving.                 *)
Recharge_nohalf ==
  /\ top.l = "recharge"
  /\ IF top.i < NR_TASKS
     THEN /\ counter' = IF top.i \in Live
                        THEN [counter EXCEPT ![top.i] = @ + Priority]
                        ELSE counter
          /\ Becomes([top EXCEPT !.i = @ + 1])
     ELSE /\ Becomes(ScanStart)
          /\ UNCHANGED counter
  /\ UNCHANGED <<nr_tasks, task, current, sp, state, preempt_count, wait_array,
                 frq, level, leaked>>

(* One pass of the loop that recharges the counters.  >> on a long keeps   *)
(* the sign, as \div does.                                                 *)
Recharge ==
  /\ top.l = "recharge"
  /\ IF top.i < NR_TASKS
     THEN /\ counter' = IF top.i \in Live
                        THEN [counter EXCEPT ![top.i] = (@ \div 2) + Priority]
                        ELSE counter
          /\ Becomes([top EXCEPT !.i = @ + 1])
     ELSE /\ Becomes(ScanStart)
          /\ UNCHANGED counter
  /\ UNCHANGED <<nr_tasks, task, current, sp, state, preempt_count, wait_array,
                 frq, level, leaked>>

(* switch_to: nothing to do, or `current = next' ...                       *)
SwitchSame ==
  /\ top.l = "switch_to"
  /\ top.nx = current
  /\ Becomes(At("sched_en"))
  /\ UNCHANGED <<nr_tasks, task, current, sp, state, counter, preempt_count,
                 wait_array, frq, level, leaked>>

SwitchCurrent ==
  /\ top.l = "switch_to"
  /\ top.nx # current
  /\ current' = top.nx
  /\ Becomes([top EXCEPT !.l = "cpu_switch_to"])
  /\ UNCHANGED <<nr_tasks, task, sp, state, counter, preempt_count, wait_array,
                 frq, level, leaked>>

(* ... and cpu_switch_to(prev, next).  prev resumes behind the call.       *)
CpuSwitchTo ==
  /\ Goto("cpu_switch_to", "sched_en")
  /\ sp' = top.nx
  /\ UNCHANGED <<nr_tasks, task, current, state, counter, preempt_count,
                 wait_array, frq, level, leaked>>

SchedLeave ==
  /\ Goto("sched_en", IF level[sp] > 0 THEN "irq_ret" ELSE Base(sp))
  /\ preempt_enable
  /\ UNCHANGED <<nr_tasks, task, current, sp, state, counter, wait_array, frq,
                 level, leaked>>

-----------------------------------------------------------------------------
(* The timer interrupt.  update_wait: *)
WaitDue == frq + 1 = TicksPerSec
(* Mutants: sleepers are woken at 0 instead of 1; or all of them at once.  *)
Woken_atzero == {t \in Tasks : WaitDue /\ wait_array[t] = 0}
Woken_all == {t \in Tasks : WaitDue /\ wait_array[t] # -1}

Woken == {t \in Tasks : WaitDue /\ wait_array[t] = 1}

(* Mutant: the wait is ended but the task is not made runnable.            *)
update_wait_nostate ==
  /\ frq' = IF WaitDue THEN 0 ELSE frq + 1
  /\ wait_array' = [t \in Tasks |->
                      IF t \in Woken THEN -1
                      ELSE IF WaitDue /\ wait_array[t] # -1 THEN wait_array[t] - 1
                      ELSE wait_array[t]]
  /\ UNCHANGED state

update_wait ==
  /\ frq' = IF WaitDue THEN 0 ELSE frq + 1
  /\ wait_array' = [t \in Tasks |->
                      IF t \in Woken THEN -1
                      ELSE IF WaitDue /\ wait_array[t] # -1 THEN wait_array[t] - 1
                      ELSE wait_array[t]]
  /\ state' = [t \in Tasks |-> IF t \in Woken THEN TASK_RUNNING ELSE state[t]]

(* timer_tick returns: time is left, or preemption is disabled.  Below     *)
(* -MaxOverrun no tick comes, but to a task with a failed clone, whose     *)
(* counter stays there: schedule() resets it before anybody reads it.      *)
TickReturn ==
  /\ counter[current] - 1 > 0 \/ preempt_count[current] > 0
  /\ counter[current] > -MaxOverrun \/ leaked[current] > 0
  /\ update_wait
  /\ counter' = [counter EXCEPT ![current] = IF @ > -MaxOverrun THEN @ - 1 ELSE @]
  /\ UNCHANGED <<nr_tasks, task, current, sp, preempt_count, level, frame, leaked>>

(* timer_tick enables interrupts and enters _schedule, on a new frame.     *)
TickPreempt ==
  /\ ~(counter[current] - 1 > 0 \/ preempt_count[current] > 0)
  /\ level[sp] < MaxDepth
  /\ update_wait
  /\ counter' = [counter EXCEPT ![current] = 0]
  /\ level' = [level EXCEPT ![sp] = @ + 1]
  /\ frame' = [frame EXCEPT ![sp][level[sp] + 1] = At("_schedule")]
  /\ UNCHANGED <<nr_tasks, task, current, sp, preempt_count, leaked>>

(* disable_irq and kernel_exit: the interrupted frame goes on.             *)
IrqReturn ==
  /\ top.l = "irq_ret"
  /\ frame' = [frame EXCEPT ![sp][level[sp]] = At("none")]
  /\ level' = [level EXCEPT ![sp] = @ - 1]
  /\ UNCHANGED <<nr_tasks, task, current, sp, state, counter, preempt_count,
                 wait_array, frq, leaked>>

-----------------------------------------------------------------------------
Boot == top.l = "boot" /\ ForkEnter
Syscall == \/ top.l = "user" /\ ForkEnter
           \/ ExitEnter
           \/ SleepEnter
KernelStep ==
  \/ Boot \/ ForkCount \/ ForkChild \/ ForkFail \/ ForkLeave \/ RetFromFork
  \/ KernelProcess
  \/ ExitZombie \/ ExitLeave
  \/ SleepWait \/ SleepSet \/ SleepLeave
  \/ Schedule \/ SchedEnter \/ Scan \/ ScanEnd \/ Recharge
  \/ SwitchSame \/ SwitchCurrent \/ CpuSwitchTo \/ SchedLeave
  \/ IrqReturn
Tick == TickReturn \/ TickPreempt

Next == Syscall \/ KernelStep \/ Tick

Spec == Init /\ [][Next]_vars

-----------------------------------------------------------------------------
(* Properties *)

Frames == [0 .. MaxDepth -> Frame]

(* Every variable has the values its C type and its use in the code allow. *)
TypeOK ==
  /\ nr_tasks \in 1 .. NR_TASKS
  /\ task \in SUBSET (0 .. nr_tasks - 1) /\ 0 \in task
  /\ current \in Live /\ sp \in Live
  /\ state \in [Tasks -> {TASK_RUNNING, TASK_ZOMBIE, TASK_WAIT}]
  /\ counter \in [Tasks -> Int]
  /\ preempt_count \in [Tasks -> Nat]
  /\ wait_array \in [Tasks -> Nat \union {-1}]
  /\ frq \in 0 .. TicksPerSec - 1
  /\ level \in [Tasks -> 0 .. MaxDepth]
  /\ frame \in [Tasks -> Frames]
  /\ leaked \in [Tasks -> Nat]

TopOf(t) == frame[t][level[t]]

(* preempt_count of a task is what its own stack accounts for: one for a   *)
(* frame inside preempt_disable .. preempt_enable, and one for every clone *)
(* that failed, since copy_process (fork.c:14-16) returns without          *)
(* preempt_enable.  The disable and the enable of one switch run with      *)
(* different values of `current'.                                          *)
PreemptCounted ==
  \A t \in Live :
    preempt_count[t] = leaked[t] + (IF TopOf(t).l \in Holding THEN 1 ELSE 0)

(* The CPU is on the stack of `current', but for the window of switch_to   *)
(* (sched.c:65-66), where a tick charges the next task on the stack of the *)
(* previous one; there preemption is disabled for both.  Every other task  *)
(* is parked behind cpu_switch_to or has not started.                      *)
StackOwner ==
  /\ sp # current => /\ top.l = "cpu_switch_to" /\ top.nx = current
                     /\ preempt_count[current] > 0 /\ preempt_count[sp] > 0
  /\ \A t \in Live \ {sp} : TopOf(t).l \in {"sched_en", "ret_from_fork"}

(* A task in TASK_WAIT is one that update_wait will wake: no tick falls    *)
(* between state = TASK_WAIT and wait_array = second (sched.c:136-138) and *)
(* leaves it waiting for ever, and none counts down for a task not asleep. *)
NoLostWakeup ==
  \A t \in Live :
    IF state[t] = TASK_WAIT
    THEN wait_array[t] >= 1 \/ (wait_array[t] = -1 /\ t = sp /\ top.l = "sleep_set")
    ELSE wait_array[t] = -1

(* _schedule never hands the CPU to a task that sleeps or is a zombie,     *)
(* the fallback next = 0 (sched.c:31) when all counters are negative too.  *)
DispatchRunnable == [][sp' # sp => state[sp'] = TASK_RUNNING]_vars

(* A zombie is never revived, by update_wait or by a dispatch.             *)
DeadStaysDead ==
  [][\A t \in Live : state[t] = TASK_ZOMBIE =>
       state'[t] = TASK_ZOMBIE /\ (sp # t => sp' # t)]_vars

(* Recharging (sched.c:45) does not accumulate: a task that sleeps through *)
(* any number of recharges comes back with less than two priorities.       *)
CounterBound == \A t \in Live : counter[t] < 2 * Priority

(* The kernel implements TaskLife; a task counts as asleep once its        *)
(* seconds are set.                                                        *)
Status(t) == IF t \notin Live THEN "absent"
             ELSE IF state[t] = TASK_ZOMBIE THEN "dead"
             ELSE IF wait_array[t] = -1 THEN "ready" ELSE "asleep"

Left(t) == IF wait_array[t] = -1 THEN 0 ELSE wait_array[t]

Life == INSTANCE TaskLife WITH
          status <- [t \in Tasks |-> Status(t)],
          left <- [t \in Tasks |-> Left(t)],
          cpu <- current

ImplementsLife == Life!LifeSpec

(* A task that went to sleep for a positive time is made runnable again.   *)
SleeperWakes ==
  \A t \in Tasks : state[t] = TASK_WAIT ~> state[t] = TASK_RUNNING

(* A task whose clone has failed computes in user mode: its preempt_count  *)
(* (fork.c:14-16) keeps every tick from taking the CPU away.               *)
Hogged == top.l = "user" /\ leaked[sp] > 0

(* Every runnable task gets the CPU, ticks falling into the windows around *)
(* preempt_disable and preempt_enable included, unless a task whose clone  *)
(* failed keeps the CPU for itself from some time on.                      *)
RunnableRuns ==
  \/ \A t \in Tasks : (t \in Live /\ state[t] = TASK_RUNNING) ~> (sp = t)
  \/ <>[]Hogged
=============================================================================
