------------------------ MODULE KernelSched_proofs --------------------------
(***************************************************************************)
(* Proofs about KernelSched for every size of the task table, every        *)
(* priority, every set of sleep times and every bound.                     *)
(***************************************************************************)
EXTENDS KernelSched, TLAPS

(* A frame that was interrupted is at a point where preemption is enabled; *)
(* frames of interrupts only run _schedule.                                *)
InterruptLabels == {"_schedule", "scan", "recharge", "switch_to",
                    "cpu_switch_to", "sched_en", "irq_ret"}
FrameShape ==
  \A t \in Live :
    /\ \A k \in 0 .. MaxDepth :
         /\ k < level[t] => frame[t][k].l \in Preemptible
         /\ k <= level[t] => frame[t][k].l # "none"
         /\ 0 < k /\ k <= level[t] => frame[t][k].l \in InterruptLabels
    /\ frame[t][0].l # "irq_ret"

(* A task whose own code is in user mode or in a system call before it     *)
(* changes its state is runnable.                                          *)
RunningLabels == {"boot", "kthread", "user", "fork", "fork_set", "fork_en", "exit",
                  "sleep", "ret_from_fork"}
OwnState ==
  \A t \in Live :
    /\ frame[t][0].l \in RunningLabels => state[t] = TASK_RUNNING
    /\ frame[t][0].l = "sleep_set" =>
         state[t] = TASK_WAIT /\ wait_array[t] = -1
    /\ frame[t][0].l \in {"sleep", "sleep_set"} => frame[t][0].i \in Seconds

(* init_task makes no system call but the first copy_process, so that the  *)
(* fallback of _schedule, task 0, is always runnable.                      *)
InitTask ==
  /\ state[0] = TASK_RUNNING
  /\ frame[0][0].l \in InterruptLabels \union {"boot", "main", "fork", "fork_set", "fork_en"}

(* The task _schedule has chosen so far is runnable, and so is the one     *)
(* that gets back from cpu_switch_to.                                      *)
Chosen ==
  /\ top.l \in {"scan", "switch_to", "cpu_switch_to"} =>
       top.nx \in Live /\ state[top.nx] = TASK_RUNNING
  /\ top.l = "cpu_switch_to" => top.nx = current
  /\ top.l = "sched_en" => state[sp] = TASK_RUNNING

(* Once copy_process has disabled preemption no other task takes the slot  *)
(* it is going to fill, which stays empty until it does.                   *)
ForkRoom ==
  /\ top.l = "fork" => nr_tasks < NR_TASKS
  /\ top.l = "fork_set" => top.i < nr_tasks /\ top.i \notin Live

(* Slots not yet used are as the program was loaded.                       *)
Unborn ==
  \A t \in Tasks \ Live :
    level[t] = 0 /\ leaked[t] = 0 /\ wait_array[t] = -1

IInv == /\ TypeOK
        /\ PreemptCounted
        /\ StackOwner
        /\ FrameShape
        /\ OwnState
        /\ InitTask
        /\ Chosen
        /\ ForkRoom
        /\ Unborn
        /\ NoLostWakeup
        /\ CounterBound

-----------------------------------------------------------------------------
(* Facts every step uses *)

(* Task 0 is live and every live slot is a slot (sched.c:10-11).           *)
LEMMA LiveTasks ==
  ASSUME TypeOK
  PROVE  /\ 0 \in Live /\ Live \subseteq Tasks
         /\ current \in Tasks /\ sp \in Tasks
         /\ level[sp] \in 0 .. MaxDepth /\ top \in Frame
<1>1. level[sp] \in 0 .. MaxDepth /\ 0 \in Live /\ Live \subseteq Tasks
      /\ current \in Tasks /\ sp \in Tasks
  BY ConstantAssumption DEF TypeOK, Live, Tasks
<1>2. frame[sp] \in Frames
  BY <1>1 DEF TypeOK
<1>3. top \in Frame
  BY <1>1, <1>2 DEF Frames, top
<1> QED BY <1>1, <1>3

(* At(l) is a frame with label l.                                          *)
LEMMA AtFrame ==
  ASSUME NEW l \in Holding \union Preemptible
  PROVE  At(l) \in Frame /\ At(l).l = l
BY ConstantAssumption DEF At, Frame, Tasks

(* Replacing the top frame changes nothing else on any stack.              *)
LEMMA BecomesFrame ==
  ASSUME TypeOK, NEW f \in Frame, Becomes(f)
  PROVE  /\ frame' \in [Tasks -> Frames]
         /\ frame'[sp][level[sp]] = f
         /\ \A t \in Tasks, k \in 0 .. MaxDepth :
              ~(t = sp /\ k = level[sp]) => frame'[t][k] = frame[t][k]
<1>1. sp \in Tasks /\ level[sp] \in 0 .. MaxDepth
  BY LiveTasks
<1>2. frame \in [Tasks -> Frames]
  BY DEF TypeOK
<1>3. frame' = [frame EXCEPT ![sp][level[sp]] = f]
  BY DEF Becomes
<1> QED BY <1>1, <1>2, <1>3 DEF Frames

(* The shape of the stacks survives any step that only replaces the top    *)
(* frame by one that may stand there.                                      *)
LEMMA ShapeStep ==
  ASSUME TypeOK, FrameShape, NEW f \in Frame, Becomes(f),
         UNCHANGED <<task, level>>,
         f.l # "none",
         level[sp] > 0 => f.l \in InterruptLabels,
         level[sp] = 0 => f.l # "irq_ret"
  PROVE  FrameShape'
<1> SUFFICES ASSUME NEW t \in Live, NEW k \in 0 .. MaxDepth
             PROVE  /\ k < level[t] => frame'[t][k].l \in Preemptible
                    /\ k <= level[t] => frame'[t][k].l # "none"
                    /\ 0 < k /\ k <= level[t] => frame'[t][k].l \in InterruptLabels
                    /\ frame'[t][0].l # "irq_ret"
  BY ConstantAssumption DEF FrameShape, Live
<1>1. t \in Tasks /\ 0 \in 0 .. MaxDepth /\ level[t] \in 0 .. MaxDepth /\ level[sp] \in 0 .. MaxDepth
  BY LiveTasks, ConstantAssumption DEF TypeOK
<1>2. /\ frame'[sp][level[sp]] = f
      /\ \A u \in Tasks, m \in 0 .. MaxDepth :
           ~(u = sp /\ m = level[sp]) => frame'[u][m] = frame[u][m]
  BY BecomesFrame
<1>3. /\ k < level[t] => frame[t][k].l \in Preemptible
      /\ k <= level[t] => frame[t][k].l # "none"
      /\ 0 < k /\ k <= level[t] => frame[t][k].l \in InterruptLabels
      /\ frame[t][0].l # "irq_ret"
  BY DEF FrameShape
<1>4. CASE t = sp /\ k = level[sp]
  BY <1>1, <1>2, <1>3, <1>4
<1>5. CASE ~(t = sp /\ k = level[sp])
  BY <1>1, <1>2, <1>3, <1>5
<1> QED BY <1>4, <1>5

-----------------------------------------------------------------------------
(* Most steps are local: a task on its own stack replaces its top frame by *)
(* f and touches only its own state, wait_array, preempt_count and leaked. *)
Local(f) ==
  /\ f \in Frame
  /\ Becomes(f)
  /\ current = sp
  /\ UNCHANGED <<task, current, sp, level, frq>>
  /\ nr_tasks' \in nr_tasks .. NR_TASKS
  /\ \A t \in Tasks \ {sp} : /\ state'[t] = state[t]
                             /\ wait_array'[t] = wait_array[t]
                             /\ preempt_count'[t] = preempt_count[t]
                             /\ leaked'[t] = leaked[t]

(* The types of what a local step may change.                              *)
LocalTypes ==
  /\ state' \in [Tasks -> {TASK_RUNNING, TASK_ZOMBIE, TASK_WAIT}]
  /\ counter' \in [Tasks -> Int]
  /\ preempt_count' \in [Tasks -> Nat]
  /\ wait_array' \in [Tasks -> Nat \union {-1}]
  /\ leaked' \in [Tasks -> Nat]

(* What f must be for the parts of the invariant that speak of the task on *)
(* the CPU.                                                                *)
LocalFrame(f) ==
  /\ f.l # "none"
  /\ level[sp] > 0 => f.l \in InterruptLabels
  /\ level[sp] = 0 => f.l # "irq_ret"
  /\ preempt_count'[sp] = leaked'[sp] + (IF f.l \in Holding THEN 1 ELSE 0)

LocalState(f) ==
  /\ IF level[sp] = 0
     THEN /\ f.l \in RunningLabels => state'[sp] = TASK_RUNNING
          /\ f.l = "sleep_set" => state'[sp] = TASK_WAIT /\ wait_array'[sp] = -1
          /\ f.l \in {"sleep", "sleep_set"} => f.i \in Seconds
          /\ sp = 0 => f.l \in InterruptLabels \union {"boot", "main", "fork", "fork_set", "fork_en"}
     ELSE state'[sp] = state[sp] /\ wait_array'[sp] = wait_array[sp]
  /\ sp = 0 => state'[sp] = TASK_RUNNING
  /\ f.l # "cpu_switch_to"
  /\ f.l \in {"scan", "switch_to"} =>
       f.nx \in Live /\ state'[f.nx] = TASK_RUNNING
  /\ f.l = "sched_en" => state'[sp] = TASK_RUNNING
  /\ f.l = "fork" => nr_tasks' < NR_TASKS
  /\ f.l = "fork_set" => f.i < nr_tasks' /\ f.i \notin Live
  /\ IF state'[sp] = TASK_WAIT
     THEN wait_array'[sp] >= 1 \/ (wait_array'[sp] = -1 /\ f.l = "sleep_set")
     ELSE wait_array'[sp] = -1

(* A table that has been filled further.                                   *)
LEMMA Further ==
  ASSUME NEW N \in Nat, NEW m \in 1 .. N, NEW n \in m .. N
  PROVE  n \in 1 .. N /\ \A i \in 0 .. m - 1 : i \in 0 .. n - 1
  OBVIOUS

(* A local step preserves the invariant.                                   *)
LEMMA LocalStep ==
  ASSUME IInv, NEW f, Local(f), LocalTypes, LocalFrame(f), LocalState(f), CounterBound'
  PROVE  IInv'
<1> USE DEF Local
<1>1. /\ 0 \in Live /\ Live \subseteq Tasks /\ sp \in Live /\ sp \in Tasks
      /\ level[sp] \in 0 .. MaxDepth /\ 0 \in 0 .. MaxDepth
      /\ level \in [Tasks -> 0 .. MaxDepth]
  BY LiveTasks, ConstantAssumption DEF IInv, TypeOK
<1>2. /\ frame' \in [Tasks -> Frames]
      /\ frame'[sp][level[sp]] = f
      /\ \A t \in Tasks, k \in 0 .. MaxDepth :
           ~(t = sp /\ k = level[sp]) => frame'[t][k] = frame[t][k]
  BY BecomesFrame DEF IInv
<1>3. Live' = Live /\ top' = f
  BY <1>2 DEF Live, top
<1>4. \A t \in Live : IF t = sp THEN TopOf(t)' = f ELSE TopOf(t)' = TopOf(t)
  BY <1>1, <1>2 DEF TopOf
<1>5. TypeOK'
  <2>1. nr_tasks' \in 1 .. NR_TASKS /\ task' \in SUBSET (0 .. nr_tasks' - 1) /\ 0 \in task'
    <3>1. /\ nr_tasks \in 1 .. NR_TASKS /\ nr_tasks' \in nr_tasks .. NR_TASKS
          /\ task' = task /\ task \subseteq 0 .. nr_tasks - 1 /\ 0 \in task
      BY DEF IInv, TypeOK
    <3>2. NR_TASKS \in Nat
      BY ConstantAssumption
    <3>3. /\ nr_tasks' \in 1 .. NR_TASKS
          /\ \A i \in 0 .. nr_tasks - 1 : i \in 0 .. nr_tasks' - 1
      BY <3>1, <3>2, Further
    <3>4. task' \subseteq 0 .. nr_tasks' - 1
      BY <3>1, <3>3
    <3>5. 0 \in task'
      BY <3>1
    <3> QED BY <3>3, <3>4, <3>5
  <2> QED BY <1>2, <1>3, <2>1 DEF IInv, TypeOK, LocalTypes
<1>6. PreemptCounted'
  BY <1>1, <1>3, <1>4 DEF IInv, PreemptCounted, LocalFrame
<1>7. StackOwner'
  BY <1>1, <1>3, <1>4 DEF IInv, StackOwner
<1>8. FrameShape'
  BY ShapeStep DEF IInv, LocalFrame
<1>9. OwnState'
  <2> SUFFICES ASSUME NEW t \in Live
      PROVE  /\ frame'[t][0].l \in RunningLabels => state'[t] = TASK_RUNNING
             /\ frame'[t][0].l = "sleep_set" =>
                  state'[t] = TASK_WAIT /\ wait_array'[t] = -1
             /\ frame'[t][0].l \in {"sleep", "sleep_set"} => frame'[t][0].i \in Seconds
    BY <1>3 DEF OwnState
  <2>1. CASE t = sp /\ level[sp] = 0
    BY <1>1, <1>2, <2>1 DEF LocalState
  <2>2. CASE t = sp /\ level[sp] # 0
    <3>1. frame'[t][0] = frame[t][0]
      BY <1>1, <1>2, <2>2
    <3> QED BY <1>1, <2>2, <3>1 DEF LocalState, IInv, OwnState
  <2>3. CASE t # sp
    <3>1. frame'[t][0] = frame[t][0] /\ t \in Tasks
      BY <1>1, <1>2, <2>3
    <3> QED BY <2>3, <3>1 DEF IInv, OwnState
  <2> QED BY <2>1, <2>2, <2>3
<1>10. InitTask'
  <2>1. CASE sp = 0 /\ level[sp] = 0
    BY <1>2, <2>1 DEF LocalState, InitTask
  <2>2. CASE ~(sp = 0 /\ level[sp] = 0)
    <3>1. frame'[0][0] = frame[0][0]
      BY <1>1, <1>2, <2>2
    <3> QED BY <1>1, <3>1 DEF LocalState, IInv, InitTask
  <2> QED BY <2>1, <2>2
<1>11. Chosen' /\ ForkRoom'
  BY <1>3 DEF Chosen, ForkRoom, LocalState
<1>12. Unborn'
  BY <1>1, <1>3 DEF IInv, Unborn
<1>13. NoLostWakeup'
  BY <1>1, <1>3 DEF IInv, NoLostWakeup, StackOwner, LocalState
<1> QED BY <1>5, <1>6, <1>7, <1>8, <1>9, <1>10, <1>11, <1>12, <1>13 DEF IInv

(* What the invariant says of the task on the CPU, outside the window of   *)
(* switch_to.                                                              *)
LEMMA OnCpu ==
  ASSUME IInv, top.l # "cpu_switch_to"
  PROVE  /\ current = sp /\ sp \in Live /\ sp \in Tasks /\ Live \subseteq Tasks
         /\ 0 \in Live /\ 0 \in Tasks /\ top \in Frame
         /\ level[sp] \in 0 .. MaxDepth
         /\ level[sp] > 0 => top.l \in InterruptLabels
         /\ level[sp] = 0 => /\ top.l # "irq_ret"
                             /\ top.l \in RunningLabels => state[sp] = TASK_RUNNING
                             /\ top.l = "sleep_set" => state[sp] = TASK_WAIT /\ wait_array[sp] = -1
                             /\ top.l \in {"sleep", "sleep_set"} => top.i \in Seconds
         /\ sp = 0 => /\ state[sp] = TASK_RUNNING
                      /\ top.l \in InterruptLabels \union {"boot", "main", "fork", "fork_set", "fork_en"}
         /\ preempt_count[sp] = leaked[sp] + (IF top.l \in Holding THEN 1 ELSE 0)
         /\ IF state[sp] = TASK_WAIT
            THEN wait_array[sp] >= 1 \/ (wait_array[sp] = -1 /\ top.l = "sleep_set")
            ELSE wait_array[sp] = -1
         /\ leaked[sp] \in Nat
<1>1. /\ current = sp /\ sp \in Live /\ sp \in Tasks /\ Live \subseteq Tasks
      /\ 0 \in Live /\ 0 \in Tasks /\ top \in Frame /\ level[sp] \in 0 .. MaxDepth
      /\ leaked[sp] \in Nat
  BY LiveTasks DEF IInv, TypeOK, StackOwner
<1>2. /\ level[sp] > 0 => top.l \in InterruptLabels
      /\ level[sp] = 0 => top.l # "irq_ret"
  BY <1>1 DEF IInv, FrameShape, top
<1>3. level[sp] = 0 => /\ top.l \in RunningLabels => state[sp] = TASK_RUNNING
                       /\ top.l = "sleep_set" => state[sp] = TASK_WAIT /\ wait_array[sp] = -1
                       /\ top.l \in {"sleep", "sleep_set"} => top.i \in Seconds
  BY <1>1 DEF IInv, OwnState, top
<1>4. sp = 0 => /\ state[sp] = TASK_RUNNING
                /\ top.l \in InterruptLabels \union {"boot", "main", "fork", "fork_set", "fork_en"}
  BY <1>1, <1>2 DEF IInv, InitTask, top
<1>5. preempt_count[sp] = leaked[sp] + (IF top.l \in Holding THEN 1 ELSE 0)
  BY <1>1 DEF IInv, PreemptCounted, TopOf, top
<1>6. IF state[sp] = TASK_WAIT
      THEN wait_array[sp] >= 1 \/ (wait_array[sp] = -1 /\ top.l = "sleep_set")
      ELSE wait_array[sp] = -1
  BY <1>1 DEF IInv, NoLostWakeup
<1> QED BY <1>1, <1>2, <1>3, <1>4, <1>5, <1>6

LEMMA ForkEnterInv == IInv /\ ForkEnter => IInv'
<1> SUFFICES ASSUME IInv, ForkEnter PROVE IInv'
  OBVIOUS
<1> DEFINE f == At("fork")
<1>1. top.l \in {"boot", "user"} /\ Becomes(f)
  BY DEF ForkEnter
<1>2. TypeOK /\ top.l # "cpu_switch_to"
  BY <1>1 DEF IInv
<1>4. f \in Frame /\ f.l = "fork"
  BY <1>1, <1>2, OnCpu, AtFrame DEF Base, Holding, Preemptible, InterruptLabels, RunningLabels
<1> HIDE DEF f
<1>5. Local(f)
  BY <1>1, <1>2, <1>4, OnCpu DEF Local, ForkEnter, preempt_disable, TypeOK
<1>6. LocalTypes
  BY <1>1, <1>2, OnCpu DEF LocalTypes, ForkEnter, preempt_disable, TypeOK, Holding
<1>7. LocalFrame(f)
  BY <1>1, <1>2, <1>4, OnCpu DEF LocalFrame, ForkEnter, preempt_disable, TypeOK, Holding, Preemptible, InterruptLabels, RunningLabels
<1>8. LocalState(f)
  BY <1>1, <1>2, <1>4, OnCpu, ConstantAssumption DEF LocalState, ForkEnter, preempt_disable, TypeOK, Holding, Preemptible, InterruptLabels, RunningLabels,
     TASK_RUNNING, TASK_ZOMBIE, TASK_WAIT
<1>9. CounterBound'
  BY <1>2, OnCpu, ConstantAssumption DEF IInv, CounterBound, ForkEnter, preempt_disable, TypeOK, Live
<1> QED BY <1>5, <1>6, <1>7, <1>8, <1>9, LocalStep

LEMMA ForkCountInv == IInv /\ ForkCount => IInv'
<1> SUFFICES ASSUME IInv, ForkCount PROVE IInv'
  OBVIOUS
<1> DEFINE f == [At("fork_set") EXCEPT !.i = nr_tasks]
<1>1. top.l = "fork" /\ Becomes(f) /\ nr_tasks' = nr_tasks + 1
  BY DEF ForkCount
<1>2. TypeOK /\ top.l # "cpu_switch_to" /\ nr_tasks \in Nat /\ NR_TASKS \in Nat
      /\ nr_tasks < NR_TASKS /\ nr_tasks \notin Live
  BY <1>1, ConstantAssumption DEF IInv, TypeOK, ForkRoom, Live
<1>4. f \in Frame /\ f.l = "fork_set" /\ f.i = nr_tasks
  BY <1>2, ConstantAssumption DEF At, Frame, Holding, Tasks
<1> HIDE DEF f
<1>5. Local(f)
  BY <1>1, <1>2, <1>4, OnCpu DEF Local, ForkCount
<1>6. LocalTypes
  BY <1>2 DEF LocalTypes, ForkCount, TypeOK
<1>7. LocalFrame(f)
  BY <1>1, <1>2, <1>4, OnCpu DEF LocalFrame, ForkCount, Holding, InterruptLabels
<1>8. LocalState(f)
  <2>1. UNCHANGED <<state, wait_array>> /\ level[sp] = 0 /\ state[sp] = TASK_RUNNING
        /\ wait_array[sp] = -1
    BY <1>1, <1>2, OnCpu, ConstantAssumption
    DEF ForkCount, InterruptLabels, RunningLabels, TASK_RUNNING, TASK_WAIT
  <2> QED BY <1>1, <1>2, <1>4, <2>1 DEF LocalState, InterruptLabels, TASK_RUNNING, TASK_WAIT
<1>9. CounterBound'
  BY DEF IInv, CounterBound, ForkCount, Live
<1> QED BY <1>5, <1>6, <1>7, <1>8, <1>9, LocalStep

LEMMA ForkFailInv == IInv /\ ForkFail => IInv'
<1> SUFFICES ASSUME IInv, ForkFail PROVE IInv'
  OBVIOUS
<1> DEFINE f == At("user")
<1>1. top.l = "fork" /\ current # 0 /\ Becomes(f)
  BY DEF ForkFail
<1>2. TypeOK /\ top.l # "cpu_switch_to"
  BY <1>1 DEF IInv
<1>4. f \in Frame /\ f.l = "user"
  BY <1>1, <1>2, OnCpu, AtFrame DEF Base, Holding, Preemptible, InterruptLabels, RunningLabels
<1> HIDE DEF f
<1>5. Local(f)
  BY <1>1, <1>2, <1>4, OnCpu DEF Local, ForkFail, TypeOK
<1>6. LocalTypes
  BY <1>1, <1>2, OnCpu DEF LocalTypes, ForkFail, TypeOK, Holding
<1>7. LocalFrame(f)
  BY <1>1, <1>2, <1>4, OnCpu DEF LocalFrame, ForkFail, TypeOK, Holding, Preemptible, InterruptLabels, RunningLabels
<1>8. LocalState(f)
  BY <1>1, <1>2, <1>4, OnCpu, ConstantAssumption DEF LocalState, ForkFail, TypeOK, Holding, Preemptible, InterruptLabels, RunningLabels,
     TASK_RUNNING, TASK_ZOMBIE, TASK_WAIT
<1>9. CounterBound'
  BY <1>2, OnCpu, ConstantAssumption DEF IInv, CounterBound, ForkFail, TypeOK, Live
<1> QED BY <1>5, <1>6, <1>7, <1>8, <1>9, LocalStep

LEMMA ForkLeaveInv == IInv /\ ForkLeave => IInv'
<1> SUFFICES ASSUME IInv, ForkLeave PROVE IInv'
  OBVIOUS
<1> DEFINE f == At(Base(sp))
<1>1. top.l = "fork_en" /\ Becomes(f)
  BY DEF ForkLeave, Goto
<1>2. TypeOK /\ top.l # "cpu_switch_to"
  BY <1>1 DEF IInv
<1>4. f \in Frame /\ f.l = IF sp = 0 THEN "main" ELSE "user"
  BY <1>1, <1>2, OnCpu, AtFrame DEF Base, Holding, Preemptible, InterruptLabels, RunningLabels
<1> HIDE DEF f
<1>5. Local(f)
  BY <1>1, <1>2, <1>4, OnCpu DEF Local, ForkLeave, preempt_enable, TypeOK
<1>6. LocalTypes
  BY <1>1, <1>2, OnCpu DEF LocalTypes, ForkLeave, preempt_enable, TypeOK, Holding
<1>7. LocalFrame(f)
  BY <1>1, <1>2, <1>4, OnCpu DEF LocalFrame, ForkLeave, preempt_enable, TypeOK, Holding, Preemptible, InterruptLabels, RunningLabels
<1>8. LocalState(f)
  BY <1>1, <1>2, <1>4, OnCpu, ConstantAssumption DEF LocalState, ForkLeave, preempt_enable, TypeOK, Holding, Preemptible, InterruptLabels, RunningLabels,
     TASK_RUNNING, TASK_ZOMBIE, TASK_WAIT
<1>9. CounterBound'
  BY <1>2, OnCpu, ConstantAssumption DEF IInv, CounterBound, ForkLeave, preempt_enable, TypeOK, Live
<1> QED BY <1>5, <1>6, <1>7, <1>8, <1>9, LocalStep

LEMMA RetFromForkInv == IInv /\ RetFromFork => IInv'
<1> SUFFICES ASSUME IInv, RetFromFork PROVE IInv'
  OBVIOUS
<1> DEFINE f == At(IF top.i = 1 THEN "kthread" ELSE "user")
<1>1. top.l = "ret_from_fork" /\ Becomes(f)
  BY DEF RetFromFork
<1>2. TypeOK /\ top.l # "cpu_switch_to"
  BY <1>1 DEF IInv
<1>4. f \in Frame /\ f.l \in {"kthread", "user"}
  BY <1>1, <1>2, OnCpu, AtFrame DEF Base, Holding, Preemptible, InterruptLabels, RunningLabels
<1> HIDE DEF f
<1>5. Local(f)
  BY <1>1, <1>2, <1>4, OnCpu DEF Local, RetFromFork, preempt_enable, TypeOK
<1>6. LocalTypes
  BY <1>1, <1>2, OnCpu DEF LocalTypes, RetFromFork, preempt_enable, TypeOK, Holding
<1>7. LocalFrame(f)
  BY <1>1, <1>2, <1>4, OnCpu DEF LocalFrame, RetFromFork, preempt_enable, TypeOK, Holding, Preemptible, InterruptLabels, RunningLabels
<1>8. LocalState(f)
  BY <1>1, <1>2, <1>4, OnCpu, ConstantAssumption DEF LocalState, RetFromFork, preempt_enable, TypeOK, Holding, Preemptible, InterruptLabels, RunningLabels,
     TASK_RUNNING, TASK_ZOMBIE, TASK_WAIT
<1>9. CounterBound'
  BY <1>2, OnCpu, ConstantAssumption DEF IInv, CounterBound, RetFromFork, preempt_enable, TypeOK, Live
<1> QED BY <1>5, <1>6, <1>7, <1>8, <1>9, LocalStep

LEMMA KernelProcessInv == IInv /\ KernelProcess => IInv'
<1> SUFFICES ASSUME IInv, KernelProcess PROVE IInv'
  OBVIOUS
<1> DEFINE f == At("user")
<1>1. top.l = "kthread" /\ Becomes(f)
  BY DEF KernelProcess, Goto
<1>2. TypeOK /\ top.l # "cpu_switch_to"
  BY <1>1 DEF IInv
<1>4. f \in Frame /\ f.l = "user"
  BY <1>1, <1>2, OnCpu, AtFrame DEF Base, Holding, Preemptible, InterruptLabels, RunningLabels
<1> HIDE DEF f
<1>5. Local(f)
  BY <1>1, <1>2, <1>4, OnCpu DEF Local, KernelProcess, TypeOK
<1>6. LocalTypes
  BY <1>1, <1>2, OnCpu DEF LocalTypes, KernelProcess, TypeOK, Holding
<1>7. LocalFrame(f)
  BY <1>1, <1>2, <1>4, OnCpu DEF LocalFrame, KernelProcess, TypeOK, Holding, Preemptible, InterruptLabels, RunningLabels
<1>8. LocalState(f)
  BY <1>1, <1>2, <1>4, OnCpu, ConstantAssumption DEF LocalState, KernelProcess, TypeOK, Holding, Preemptible, InterruptLabels, RunningLabels,
     TASK_RUNNING, TASK_ZOMBIE, TASK_WAIT
<1>9. CounterBound'
  BY <1>2, OnCpu, ConstantAssumption DEF IInv, CounterBound, KernelProcess, TypeOK, Live
<1> QED BY <1>5, <1>6, <1>7, <1>8, <1>9, LocalStep

LEMMA ExitEnterInv == IInv /\ ExitEnter => IInv'
<1> SUFFICES ASSUME IInv, ExitEnter PROVE IInv'
  OBVIOUS
<1> DEFINE f == At("exit")
<1>1. top.l = "user" /\ Becomes(f)
  BY DEF ExitEnter, Goto
<1>2. TypeOK /\ top.l # "cpu_switch_to"
  BY <1>1 DEF IInv
<1>4. f \in Frame /\ f.l = "exit"
  BY <1>1, <1>2, OnCpu, AtFrame DEF Base, Holding, Preemptible, InterruptLabels, RunningLabels
<1> HIDE DEF f
<1>5. Local(f)
  BY <1>1, <1>2, <1>4, OnCpu DEF Local, ExitEnter, preempt_disable, TypeOK
<1>6. LocalTypes
  BY <1>1, <1>2, OnCpu DEF LocalTypes, ExitEnter, preempt_disable, TypeOK, Holding
<1>7. LocalFrame(f)
  BY <1>1, <1>2, <1>4, OnCpu DEF LocalFrame, ExitEnter, preempt_disable, TypeOK, Holding, Preemptible, InterruptLabels, RunningLabels
<1>8. LocalState(f)
  BY <1>1, <1>2, <1>4, OnCpu, ConstantAssumption DEF LocalState, ExitEnter, preempt_disable, TypeOK, Holding, Preemptible, InterruptLabels, RunningLabels,
     TASK_RUNNING, TASK_ZOMBIE, TASK_WAIT
<1>9. CounterBound'
  BY <1>2, OnCpu, ConstantAssumption DEF IInv, CounterBound, ExitEnter, preempt_disable, TypeOK, Live
<1> QED BY <1>5, <1>6, <1>7, <1>8, <1>9, LocalStep

LEMMA ExitZombieInv == IInv /\ ExitZombie => IInv'
<1> SUFFICES ASSUME IInv, ExitZombie PROVE IInv'
  OBVIOUS
<1> DEFINE f == At("exit_en")
<1>1. top.l = "exit" /\ Becomes(f)
  BY DEF ExitZombie, Goto
<1>2. TypeOK /\ top.l # "cpu_switch_to"
  BY <1>1 DEF IInv
<1>4. f \in Frame /\ f.l = "exit_en"
  BY <1>1, <1>2, OnCpu, AtFrame DEF Base, Holding, Preemptible, InterruptLabels, RunningLabels
<1> HIDE DEF f
<1>5. Local(f)
  BY <1>1, <1>2, <1>4, OnCpu DEF Local, ExitZombie, TypeOK
<1>6. LocalTypes
  BY <1>1, <1>2, OnCpu DEF LocalTypes, ExitZombie, TypeOK, Holding
<1>7. LocalFrame(f)
  BY <1>1, <1>2, <1>4, OnCpu DEF LocalFrame, ExitZombie, TypeOK, Holding, Preemptible, InterruptLabels, RunningLabels
<1>8. LocalState(f)
  BY <1>1, <1>2, <1>4, OnCpu, ConstantAssumption DEF LocalState, ExitZombie, TypeOK, Holding, Preemptible, InterruptLabels, RunningLabels,
     TASK_RUNNING, TASK_ZOMBIE, TASK_WAIT
<1>9. CounterBound'
  BY <1>2, OnCpu, ConstantAssumption DEF IInv, CounterBound, ExitZombie, TypeOK, Live
<1> QED BY <1>5, <1>6, <1>7, <1>8, <1>9, LocalStep

LEMMA ExitLeaveInv == IInv /\ ExitLeave => IInv'
<1> SUFFICES ASSUME IInv, ExitLeave PROVE IInv'
  OBVIOUS
<1> DEFINE f == At("schedule")
<1>1. top.l = "exit_en" /\ Becomes(f)
  BY DEF ExitLeave, Goto
<1>2. TypeOK /\ top.l # "cpu_switch_to"
  BY <1>1 DEF IInv
<1>4. f \in Frame /\ f.l = "schedule"
  BY <1>1, <1>2, OnCpu, AtFrame DEF Base, Holding, Preemptible, InterruptLabels, RunningLabels
<1> HIDE DEF f
<1>5. Local(f)
  BY <1>1, <1>2, <1>4, OnCpu DEF Local, ExitLeave, preempt_enable, TypeOK
<1>6. LocalTypes
  BY <1>1, <1>2, OnCpu DEF LocalTypes, ExitLeave, preempt_enable, TypeOK, Holding
<1>7. LocalFrame(f)
  BY <1>1, <1>2, <1>4, OnCpu DEF LocalFrame, ExitLeave, preempt_enable, TypeOK, Holding, Preemptible, InterruptLabels, RunningLabels
<1>8. LocalState(f)
  BY <1>1, <1>2, <1>4, OnCpu, ConstantAssumption DEF LocalState, ExitLeave, preempt_enable, TypeOK, Holding, Preemptible, InterruptLabels, RunningLabels,
     TASK_RUNNING, TASK_ZOMBIE, TASK_WAIT
<1>9. CounterBound'
  BY <1>2, OnCpu, ConstantAssumption DEF IInv, CounterBound, ExitLeave, preempt_enable, TypeOK, Live
<1> QED BY <1>5, <1>6, <1>7, <1>8, <1>9, LocalStep

LEMMA SleepWaitInv == IInv /\ SleepWait => IInv'
<1> SUFFICES ASSUME IInv, SleepWait PROVE IInv'
  OBVIOUS
<1> DEFINE f == [top EXCEPT !.l = "sleep_set"]
<1>1. top.l = "sleep" /\ Becomes(f)
  BY DEF SleepWait
<1>2. TypeOK /\ top.l # "cpu_switch_to"
  BY <1>1 DEF IInv
<1>4. f \in Frame /\ f.l = "sleep_set" /\ f.i = top.i
  BY <1>1, <1>2, OnCpu DEF Frame, Holding, Preemptible, InterruptLabels, RunningLabels
<1> HIDE DEF f
<1>5. Local(f)
  BY <1>1, <1>2, <1>4, OnCpu DEF Local, SleepWait, TypeOK
<1>6. LocalTypes
  BY <1>1, <1>2, OnCpu DEF LocalTypes, SleepWait, TypeOK, Holding
<1>7. LocalFrame(f)
  BY <1>1, <1>2, <1>4, OnCpu DEF LocalFrame, SleepWait, TypeOK, Holding, Preemptible, InterruptLabels, RunningLabels
<1>8. LocalState(f)
  BY <1>1, <1>2, <1>4, OnCpu, ConstantAssumption DEF LocalState, SleepWait, TypeOK, Holding, Preemptible, InterruptLabels, RunningLabels,
     TASK_RUNNING, TASK_ZOMBIE, TASK_WAIT
<1>9. CounterBound'
  BY <1>2, OnCpu, ConstantAssumption DEF IInv, CounterBound, SleepWait, TypeOK, Live
<1> QED BY <1>5, <1>6, <1>7, <1>8, <1>9, LocalStep

(* The argument of sleep_state is one of Seconds when it is stored.        *)
LEMMA SleepSetTop ==
  ASSUME IInv, top.l = "sleep_set"
  PROVE  level[sp] = 0 /\ top.i \in Nat /\ top.i >= 1
<1>1. TypeOK /\ top.l # "cpu_switch_to" /\ top.l \notin InterruptLabels
  BY DEF IInv, InterruptLabels
<1>2. level[sp] \in 0 .. MaxDepth /\ ~(level[sp] > 0)
  BY <1>1, OnCpu
<1>3. level[sp] = 0
  BY <1>2, ConstantAssumption
<1>4. top.i \in Seconds
  BY <1>1, <1>3, OnCpu
<1>5. Seconds \subseteq Nat \ {0}
  BY ConstantAssumption
<1>6. top.i \in Nat \ {0}
  BY <1>4, <1>5
<1> QED BY <1>3, <1>6

LEMMA SleepSetInv == IInv /\ SleepSet => IInv'
<1> SUFFICES ASSUME IInv, SleepSet PROVE IInv'
  OBVIOUS
<1> DEFINE f == At("sleep_en")
<1>1. top.l = "sleep_set" /\ Becomes(f)
  BY DEF SleepSet, Goto
<1>2. TypeOK /\ top.l # "cpu_switch_to"
  BY <1>1 DEF IInv
<1>3. level[sp] = 0 /\ top.i \in Nat /\ top.i >= 1
  BY <1>1, SleepSetTop
<1>4. f \in Frame /\ f.l = "sleep_en"
  BY <1>1, <1>2, OnCpu, AtFrame DEF Base, Holding, Preemptible, InterruptLabels, RunningLabels
<1> HIDE DEF f
<1>5. Local(f)
  BY <1>1, <1>2, <1>4, OnCpu DEF Local, SleepSet, TypeOK
<1>6. LocalTypes
  BY <1>1, <1>2, <1>3, OnCpu DEF LocalTypes, SleepSet, TypeOK, Holding
<1>7. LocalFrame(f)
  BY <1>1, <1>2, <1>4, OnCpu DEF LocalFrame, SleepSet, TypeOK, Holding, Preemptible, InterruptLabels, RunningLabels
<1>8. LocalState(f)
  BY <1>1, <1>2, <1>3, <1>4, OnCpu, ConstantAssumption DEF LocalState, SleepSet, TypeOK, Holding, Preemptible, InterruptLabels, RunningLabels,
     TASK_RUNNING, TASK_ZOMBIE, TASK_WAIT
<1>9. CounterBound'
  BY <1>2, OnCpu, ConstantAssumption DEF IInv, CounterBound, SleepSet, TypeOK, Live
<1> QED BY <1>5, <1>6, <1>7, <1>8, <1>9, LocalStep

LEMMA SleepLeaveInv == IInv /\ SleepLeave => IInv'
<1> SUFFICES ASSUME IInv, SleepLeave PROVE IInv'
  OBVIOUS
<1> DEFINE f == At("schedule")
<1>1. top.l = "sleep_en" /\ Becomes(f)
  BY DEF SleepLeave, Goto
<1>2. TypeOK /\ top.l # "cpu_switch_to"
  BY <1>1 DEF IInv
<1>4. f \in Frame /\ f.l = "schedule"
  BY <1>1, <1>2, OnCpu, AtFrame DEF Base, Holding, Preemptible, InterruptLabels, RunningLabels
<1> HIDE DEF f
<1>5. Local(f)
  BY <1>1, <1>2, <1>4, OnCpu DEF Local, SleepLeave, preempt_enable, TypeOK
<1>6. LocalTypes
  BY <1>1, <1>2, OnCpu DEF LocalTypes, SleepLeave, preempt_enable, TypeOK, Holding
<1>7. LocalFrame(f)
  BY <1>1, <1>2, <1>4, OnCpu DEF LocalFrame, SleepLeave, preempt_enable, TypeOK, Holding, Preemptible, InterruptLabels, RunningLabels
<1>8. LocalState(f)
  BY <1>1, <1>2, <1>4, OnCpu, ConstantAssumption DEF LocalState, SleepLeave, preempt_enable, TypeOK, Holding, Preemptible, InterruptLabels, RunningLabels,
     TASK_RUNNING, TASK_ZOMBIE, TASK_WAIT
<1>9. CounterBound'
  BY <1>2, OnCpu, ConstantAssumption DEF IInv, CounterBound, SleepLeave, preempt_enable, TypeOK, Live
<1> QED BY <1>5, <1>6, <1>7, <1>8, <1>9, LocalStep

LEMMA ScheduleInv == IInv /\ Schedule => IInv'
<1> SUFFICES ASSUME IInv, Schedule PROVE IInv'
  OBVIOUS
<1> DEFINE f == At("_schedule")
<1>1. top.l \in {"schedule", "main"} /\ Becomes(f)
  BY DEF Schedule
<1>2. TypeOK /\ top.l # "cpu_switch_to"
  BY <1>1 DEF IInv
<1>4. f \in Frame /\ f.l = "_schedule"
  BY <1>1, <1>2, OnCpu, AtFrame DEF Base, Holding, Preemptible, InterruptLabels, RunningLabels
<1> HIDE DEF f
<1>5. Local(f)
  BY <1>1, <1>2, <1>4, OnCpu DEF Local, Schedule, TypeOK
<1>6. LocalTypes
  BY <1>1, <1>2, OnCpu DEF LocalTypes, Schedule, TypeOK, Holding
<1>7. LocalFrame(f)
  BY <1>1, <1>2, <1>4, OnCpu DEF LocalFrame, Schedule, TypeOK, Holding, Preemptible, InterruptLabels, RunningLabels
<1>8. LocalState(f)
  BY <1>1, <1>2, <1>4, OnCpu, ConstantAssumption DEF LocalState, Schedule, TypeOK, Holding, Preemptible, InterruptLabels, RunningLabels,
     TASK_RUNNING, TASK_ZOMBIE, TASK_WAIT
<1>9. CounterBound'
  BY <1>2, OnCpu, ConstantAssumption DEF IInv, CounterBound, Schedule, TypeOK, Live
<1> QED BY <1>5, <1>6, <1>7, <1>8, <1>9, LocalStep

LEMMA SchedEnterInv == IInv /\ SchedEnter => IInv'
<1> SUFFICES ASSUME IInv, SchedEnter PROVE IInv'
  OBVIOUS
<1> DEFINE f == ScanStart
<1>1. top.l = "_schedule" /\ Becomes(f)
  BY DEF SchedEnter
<1>2. TypeOK /\ top.l # "cpu_switch_to"
  BY <1>1 DEF IInv
<1>3. state[0] = TASK_RUNNING
  BY DEF IInv, InitTask
<1>4. f \in Frame /\ f.l = "scan" /\ f.nx = 0
  BY <1>1, <1>2, OnCpu, ConstantAssumption DEF ScanStart, Frame, Tasks, Holding, Preemptible, InterruptLabels, RunningLabels
<1> HIDE DEF f
<1>5. Local(f)
  BY <1>1, <1>2, <1>4, OnCpu DEF Local, SchedEnter, preempt_disable, TypeOK
<1>6. LocalTypes
  BY <1>1, <1>2, <1>3, OnCpu DEF LocalTypes, SchedEnter, preempt_disable, TypeOK, Holding
<1>7. LocalFrame(f)
  BY <1>1, <1>2, <1>4, OnCpu DEF LocalFrame, SchedEnter, preempt_disable, TypeOK, Holding, Preemptible, InterruptLabels, RunningLabels
<1>8. LocalState(f)
  BY <1>1, <1>2, <1>3, <1>4, OnCpu, ConstantAssumption DEF LocalState, SchedEnter, preempt_disable, TypeOK, Holding, Preemptible, InterruptLabels, RunningLabels,
     TASK_RUNNING, TASK_ZOMBIE, TASK_WAIT
<1>9. CounterBound'
  BY <1>2, OnCpu, ConstantAssumption DEF IInv, CounterBound, SchedEnter, preempt_disable, TypeOK, Live
<1> QED BY <1>5, <1>6, <1>7, <1>8, <1>9, LocalStep

LEMMA SwitchSameInv == IInv /\ SwitchSame => IInv'
<1> SUFFICES ASSUME IInv, SwitchSame PROVE IInv'
  OBVIOUS
<1> DEFINE f == At("sched_en")
<1>1. top.l = "switch_to" /\ top.nx = current /\ Becomes(f)
  BY DEF SwitchSame
<1>2. TypeOK /\ top.l # "cpu_switch_to"
  BY <1>1 DEF IInv
<1>3. state[top.nx] = TASK_RUNNING
  BY <1>1 DEF IInv, Chosen
<1>4. f \in Frame /\ f.l = "sched_en"
  BY <1>1, <1>2, OnCpu, AtFrame DEF Base, Holding, Preemptible, InterruptLabels, RunningLabels
<1> HIDE DEF f
<1>5. Local(f)
  BY <1>1, <1>2, <1>4, OnCpu DEF Local, SwitchSame, TypeOK
<1>6. LocalTypes
  BY <1>1, <1>2, <1>3, OnCpu DEF LocalTypes, SwitchSame, TypeOK, Holding
<1>7. LocalFrame(f)
  BY <1>1, <1>2, <1>4, OnCpu DEF LocalFrame, SwitchSame, TypeOK, Holding, Preemptible, InterruptLabels, RunningLabels
<1>8. LocalState(f)
  BY <1>1, <1>2, <1>3, <1>4, OnCpu, ConstantAssumption DEF LocalState, SwitchSame, TypeOK, Holding, Preemptible, InterruptLabels, RunningLabels,
     TASK_RUNNING, TASK_ZOMBIE, TASK_WAIT
<1>9. CounterBound'
  BY <1>2, OnCpu, ConstantAssumption DEF IInv, CounterBound, SwitchSame, TypeOK, Live
<1> QED BY <1>5, <1>6, <1>7, <1>8, <1>9, LocalStep

LEMMA SchedLeaveInv == IInv /\ SchedLeave => IInv'
<1> SUFFICES ASSUME IInv, SchedLeave PROVE IInv'
  OBVIOUS
<1> DEFINE f == At(IF level[sp] > 0 THEN "irq_ret" ELSE Base(sp))
<1>1. top.l = "sched_en" /\ Becomes(f)
  BY DEF SchedLeave, Goto
<1>2. TypeOK /\ top.l # "cpu_switch_to"
  BY <1>1 DEF IInv
<1>3. state[sp] = TASK_RUNNING
  BY <1>1 DEF IInv, Chosen
<1>4. f \in Frame /\ f.l = IF level[sp] > 0 THEN "irq_ret" ELSE IF sp = 0 THEN "main" ELSE "user"
  BY <1>1, <1>2, OnCpu, AtFrame DEF Base, Holding, Preemptible, InterruptLabels, RunningLabels
<1> HIDE DEF f
<1>5. Local(f)
  BY <1>1, <1>2, <1>4, OnCpu DEF Local, SchedLeave, preempt_enable, TypeOK
<1>6. LocalTypes
  BY <1>1, <1>2, <1>3, OnCpu DEF LocalTypes, SchedLeave, preempt_enable, TypeOK, Holding
<1>7. LocalFrame(f)
  BY <1>1, <1>2, <1>4, OnCpu DEF LocalFrame, SchedLeave, preempt_enable, TypeOK, Holding, Preemptible, InterruptLabels, RunningLabels
<1>8. LocalState(f)
  BY <1>1, <1>2, <1>3, <1>4, OnCpu, ConstantAssumption DEF LocalState, SchedLeave, preempt_enable, TypeOK, Holding, Preemptible, InterruptLabels, RunningLabels,
     TASK_RUNNING, TASK_ZOMBIE, TASK_WAIT
<1>9. CounterBound'
  BY <1>2, OnCpu, ConstantAssumption DEF IInv, CounterBound, SchedLeave, preempt_enable, TypeOK, Live
<1> QED BY <1>5, <1>6, <1>7, <1>8, <1>9, LocalStep

LEMMA SleepEnterInv == IInv /\ SleepEnter => IInv'
<1> SUFFICES ASSUME IInv, SleepEnter PROVE IInv'
  OBVIOUS
<1>1. PICK second \in Seconds : Becomes([At("sleep") EXCEPT !.i = second])
  BY DEF SleepEnter
<1> DEFINE f == [At("sleep") EXCEPT !.i = second]
<1>2. TypeOK /\ top.l = "user" /\ second \in Nat
  BY ConstantAssumption DEF IInv, SleepEnter
<1>3. f \in Frame /\ f.l = "sleep" /\ f.i = second
  BY <1>2, ConstantAssumption DEF At, Frame, Tasks, Holding
<1>4. Becomes(f)
  BY <1>1
<1> HIDE DEF f
<1>5. Local(f)
  BY <1>2, <1>3, <1>4, OnCpu DEF Local, SleepEnter, preempt_disable, TypeOK
<1>6. LocalTypes
  BY <1>2, OnCpu DEF LocalTypes, SleepEnter, preempt_disable, TypeOK
<1>7. LocalFrame(f)
  BY <1>2, <1>3, OnCpu DEF LocalFrame, SleepEnter, preempt_disable, TypeOK, Holding,
     Preemptible, InterruptLabels
<1>8. LocalState(f)
  BY <1>2, <1>3, OnCpu, ConstantAssumption DEF LocalState, SleepEnter, TypeOK, Holding,
     Preemptible, InterruptLabels, RunningLabels, TASK_RUNNING, TASK_ZOMBIE, TASK_WAIT
<1>9. CounterBound'
  BY DEF IInv, CounterBound, SleepEnter, Live
<1> QED BY <1>5, <1>6, <1>7, <1>8, <1>9, LocalStep

(* The three loops of _schedule change nothing but the frame, and the      *)
(* counters when they are recharged.                                       *)
LEMMA LoopStep ==
  ASSUME IInv, NEW f \in Frame, Becomes(f),
         top.l \in {"scan", "recharge"},
         f.l \in {"scan", "recharge", "switch_to"},
         f.l \in {"scan", "switch_to"} => f.nx \in Live /\ state[f.nx] = TASK_RUNNING,
         counter' \in [Tasks -> Int], CounterBound',
         UNCHANGED <<nr_tasks, task, current, sp, state, preempt_count, wait_array,
                     frq, level, leaked>>
  PROVE  IInv'
<1>1. TypeOK /\ top.l # "cpu_switch_to"
  BY DEF IInv
<1>2. Local(f)
  <2>1. nr_tasks' \in nr_tasks .. NR_TASKS
    BY <1>1, ConstantAssumption DEF TypeOK
  <2> QED BY <1>1, <2>1, OnCpu DEF Local
<1>3. LocalTypes
  BY <1>1 DEF LocalTypes, TypeOK
<1>4. LocalFrame(f)
  BY <1>1, OnCpu DEF LocalFrame, Holding, InterruptLabels
<1>5. LocalState(f)
  BY <1>1, OnCpu, ConstantAssumption DEF LocalState, InterruptLabels, RunningLabels, TASK_RUNNING,
     TASK_ZOMBIE, TASK_WAIT
<1> QED BY <1>2, <1>3, <1>4, <1>5, LocalStep

LEMMA ScanInv == IInv /\ Scan => IInv'
<1> SUFFICES ASSUME IInv, Scan PROVE IInv'
  OBVIOUS
<1> DEFINE f == IF Better(top.i)
                THEN [l |-> "scan", i |-> top.i + 1, c |-> counter[top.i], nx |-> top.i]
                ELSE [top EXCEPT !.i = @ + 1]
<1>1. TypeOK /\ top.l = "scan" /\ top.l # "cpu_switch_to" /\ top.i < NR_TASKS /\ Becomes(f)
  BY DEF IInv, Scan
<1>2. top \in Frame /\ Live \subseteq Tasks /\ counter \in [Tasks -> Int]
  BY <1>1, LiveTasks DEF TypeOK
<1>3. top.nx \in Live /\ state[top.nx] = TASK_RUNNING
  BY <1>1 DEF IInv, Chosen
<1>4. /\ f \in Frame /\ f.l = "scan"
      /\ f.nx \in Live /\ state[f.nx] = TASK_RUNNING
  <2>1. CASE Better(top.i)
    BY <1>2, <2>1 DEF Better, Frame, Holding
  <2>2. CASE ~Better(top.i)
    BY <1>1, <1>2, <1>3, <2>2 DEF Frame
  <2> QED BY <2>1, <2>2
<1> HIDE DEF f
<1>5. CounterBound' /\ counter' \in [Tasks -> Int]
  BY <1>2 DEF IInv, CounterBound, Scan, Live
<1> QED BY <1>1, <1>4, <1>5, LoopStep DEF Scan

LEMMA ScanEndInv == IInv /\ ScanEnd => IInv'
<1> SUFFICES ASSUME IInv, ScanEnd PROVE IInv'
  OBVIOUS
<1> DEFINE f == IF top.c # 0 THEN [At("switch_to") EXCEPT !.nx = top.nx] ELSE At("recharge")
<1>1. TypeOK /\ top.l = "scan" /\ top.l # "cpu_switch_to" /\ Becomes(f)
  BY DEF IInv, ScanEnd
<1>2. top \in Frame /\ Live \subseteq Tasks /\ counter \in [Tasks -> Int]
  BY <1>1, LiveTasks DEF TypeOK
<1>3. top.nx \in Live /\ state[top.nx] = TASK_RUNNING
  BY <1>1 DEF IInv, Chosen
<1>4. /\ f \in Frame /\ f.l \in {"recharge", "switch_to"}
      /\ f.l = "switch_to" => f.nx \in Live /\ state[f.nx] = TASK_RUNNING
  BY <1>2, <1>3, ConstantAssumption DEF At, Frame, Holding, Tasks
<1> HIDE DEF f
<1>5. CounterBound' /\ counter' \in [Tasks -> Int]
  BY <1>2 DEF IInv, CounterBound, ScanEnd, Live
<1> QED BY <1>1, <1>4, <1>5, LoopStep DEF ScanEnd

(* Halving a counter below two priorities and adding one stays below two.  *)
LEMMA RechargeBound ==
  ASSUME NEW n \in Int, n < 2 * Priority
  PROVE  (n \div 2) + Priority \in Int /\ (n \div 2) + Priority < 2 * Priority
BY ConstantAssumption

LEMMA RechargeInv == IInv /\ Recharge => IInv'
<1> SUFFICES ASSUME IInv, Recharge PROVE IInv'
  OBVIOUS
<1>1. TypeOK /\ top.l = "recharge" /\ top.l # "cpu_switch_to"
  BY DEF IInv, Recharge
<1>2. top \in Frame /\ Live \subseteq Tasks /\ counter \in [Tasks -> Int] /\ 0 \in Live
  BY <1>1, LiveTasks DEF TypeOK
<1>3. CASE top.i < NR_TASKS
  <2> DEFINE f == [top EXCEPT !.i = @ + 1]
  <2>1. Becomes(f)
    BY <1>3 DEF Recharge
  <2>2. f \in Frame /\ f.l = "recharge"
    BY <1>1, <1>2 DEF Frame
  <2> HIDE DEF f
  <2>3. counter' = IF top.i \in Live
                   THEN [counter EXCEPT ![top.i] = (@ \div 2) + Priority]
                   ELSE counter
    BY <1>3 DEF Recharge
  <2>4. \A t \in Live : counter[t] \in Int /\ counter[t] < 2 * Priority
    BY <1>2 DEF IInv, CounterBound
  <2>5. counter' \in [Tasks -> Int] /\ \A t \in Live : counter'[t] < 2 * Priority
    <3>1. CASE top.i \in Live
      <4> DEFINE new == (counter[top.i] \div 2) + Priority
      <4>1. new \in Int /\ new < 2 * Priority
        BY <2>4, <3>1, RechargeBound
      <4>2. counter' = [counter EXCEPT ![top.i] = new]
        BY <2>3, <3>1
      <4> HIDE DEF new
      <4> QED BY <1>2, <2>4, <3>1, <4>1, <4>2
    <3>2. CASE top.i \notin Live
      BY <1>2, <2>3, <2>4, <3>2
    <3> QED BY <3>1, <3>2
  <2>6. CounterBound'
    BY <2>5 DEF CounterBound, Live, Recharge
  <2> QED BY <1>1, <2>1, <2>2, <2>5, <2>6, LoopStep DEF Recharge
<1>4. CASE ~(top.i < NR_TASKS)
  <2>1. Becomes(ScanStart) /\ counter' = counter
    BY <1>4 DEF Recharge
  <2>2. ScanStart \in Frame /\ ScanStart.l = "scan" /\ ScanStart.nx = 0
    BY <1>2 DEF ScanStart, Frame, Holding
  <2>3. state[0] = TASK_RUNNING
    BY DEF IInv, InitTask
  <2>4. CounterBound'
    BY <2>1 DEF IInv, CounterBound, Live, Recharge
  <2> QED BY <1>1, <1>2, <2>1, <2>2, <2>3, <2>4, LoopStep DEF Recharge
<1> QED BY <1>3, <1>4

(* `current = next': from here to CpuSwitchTo the CPU is on the stack of   *)
(* the previous task, and both hold preemption disabled.                   *)
LEMMA SwitchCurrentInv == IInv /\ SwitchCurrent => IInv'
<1> SUFFICES ASSUME IInv, SwitchCurrent PROVE IInv'
  OBVIOUS
<1> DEFINE f == [top EXCEPT !.l = "cpu_switch_to"]
<1>1. /\ TypeOK /\ top.l = "switch_to" /\ Becomes(f) /\ current' = top.nx
      /\ UNCHANGED <<nr_tasks, task, sp, state, counter, preempt_count, wait_array,
                     frq, level, leaked>>
  BY DEF IInv, SwitchCurrent
<1>2. /\ current = sp /\ sp \in Live /\ sp \in Tasks /\ Live \subseteq Tasks
      /\ top \in Frame /\ level[sp] \in 0 .. MaxDepth /\ 0 \in Tasks
      /\ top.nx \in Live /\ state[top.nx] = TASK_RUNNING
      /\ level \in [Tasks -> 0 .. MaxDepth] /\ 0 \in 0 .. MaxDepth
  BY <1>1, OnCpu, ConstantAssumption DEF IInv, Chosen, TypeOK
<1>3. f \in Frame /\ f.l = "cpu_switch_to" /\ f.nx = top.nx
  BY <1>2 DEF Frame, Holding
<1> HIDE DEF f
<1>4. /\ frame' \in [Tasks -> Frames]
      /\ frame'[sp][level[sp]] = f
      /\ \A t \in Tasks, k \in 0 .. MaxDepth :
           ~(t = sp /\ k = level[sp]) => frame'[t][k] = frame[t][k]
  BY <1>1, <1>3, BecomesFrame
<1>5. Live' = Live /\ top' = f
  BY <1>1, <1>4 DEF Live, top
<1>6. \A t \in Live : IF t = sp THEN TopOf(t)' = f ELSE TopOf(t)' = TopOf(t)
  BY <1>1, <1>2, <1>4 DEF TopOf
<1>7. TypeOK'
  BY <1>1, <1>2, <1>4, <1>5 DEF TypeOK
<1>8. PreemptCounted'
  <2>1. TopOf(sp).l \in Holding
    BY <1>1 DEF TopOf, top, Holding
  <2> QED BY <1>1, <1>2, <1>3, <1>5, <1>6, <2>1 DEF IInv, PreemptCounted, Holding
<1>9. StackOwner'
  <2>1. \A t \in Live : TopOf(t).l \in Holding
    <3>1. \A t \in Live \ {sp} : TopOf(t).l \in {"sched_en", "ret_from_fork"}
      BY DEF IInv, StackOwner
    <3> QED BY <1>1, <3>1 DEF TopOf, top, Holding
  <2>2. \A t \in Live : preempt_count[t] > 0
    BY <1>2, <2>1 DEF IInv, PreemptCounted, TypeOK
  <2> QED BY <1>1, <1>2, <1>3, <1>5, <1>6, <2>2 DEF IInv, StackOwner
<1>10. FrameShape'
  BY <1>1, <1>3, ShapeStep DEF IInv, InterruptLabels
<1>11. OwnState' /\ InitTask'
  <2>1. \A t \in Live : \/ frame'[t][0] = frame[t][0]
                        \/ t = sp /\ frame'[t][0] = f
    BY <1>2, <1>4
  <2> QED BY <1>1, <1>2, <1>3, <1>5, <2>1, LiveTasks
          DEF IInv, OwnState, InitTask, RunningLabels, InterruptLabels
<1>12. Chosen' /\ ForkRoom' /\ Unborn'
  BY <1>1, <1>2, <1>3, <1>5 DEF IInv, Chosen, ForkRoom, Unborn
<1>13. NoLostWakeup' /\ CounterBound'
  BY <1>1, <1>3, <1>5 DEF IInv, NoLostWakeup, CounterBound
<1> QED BY <1>7, <1>8, <1>9, <1>10, <1>11, <1>12, <1>13 DEF IInv

(* cpu_switch_to ends the window: the CPU is on the stack of `current'.    *)
LEMMA CpuSwitchToInv == IInv /\ CpuSwitchTo => IInv'
<1> SUFFICES ASSUME IInv, CpuSwitchTo PROVE IInv'
  OBVIOUS
<1> DEFINE f == At("sched_en")
<1>1. /\ TypeOK /\ top.l = "cpu_switch_to" /\ Becomes(f) /\ sp' = top.nx
      /\ UNCHANGED <<nr_tasks, task, current, state, counter, preempt_count,
                     wait_array, frq, level, leaked>>
  BY DEF IInv, CpuSwitchTo, Goto
<1>2. /\ sp \in Live /\ sp \in Tasks /\ Live \subseteq Tasks /\ current \in Live
      /\ level[sp] \in 0 .. MaxDepth /\ 0 \in Tasks
      /\ top.nx \in Live /\ state[top.nx] = TASK_RUNNING
      /\ level \in [Tasks -> 0 .. MaxDepth] /\ 0 \in 0 .. MaxDepth
  BY <1>1, LiveTasks, ConstantAssumption DEF IInv, Chosen, TypeOK
<1>3. f \in Frame /\ f.l = "sched_en"
  BY AtFrame DEF Holding
<1> HIDE DEF f
<1>4. /\ frame' \in [Tasks -> Frames]
      /\ frame'[sp][level[sp]] = f
      /\ \A t \in Tasks, k \in 0 .. MaxDepth :
           ~(t = sp /\ k = level[sp]) => frame'[t][k] = frame[t][k]
  BY <1>1, <1>3, BecomesFrame
<1>5. Live' = Live
  BY <1>1 DEF Live
<1>6. \A t \in Live : IF t = sp THEN TopOf(t)' = f ELSE TopOf(t)' = TopOf(t)
  BY <1>1, <1>2, <1>4 DEF TopOf
<1>7. \A t \in Live : sp' = t => top' = TopOf(t)'
  BY DEF top, TopOf
<1>8. \A t \in Live : TopOf(t)'.l \in {"sched_en", "ret_from_fork"}
  BY <1>3, <1>6 DEF IInv, StackOwner
<1>9. TypeOK'
  BY <1>1, <1>2, <1>4, <1>5 DEF TypeOK
<1>10. PreemptCounted'
  <2>1. TopOf(sp).l \in Holding
    BY <1>1 DEF TopOf, top, Holding
  <2> QED BY <1>1, <1>2, <1>3, <1>5, <1>6, <2>1 DEF IInv, PreemptCounted, Holding
<1>11. StackOwner'
  <2>1. sp' = current
    BY <1>1 DEF IInv, Chosen
  <2> QED BY <1>1, <1>5, <1>8, <2>1 DEF StackOwner
<1>12. FrameShape'
  BY <1>1, <1>3, ShapeStep DEF IInv, InterruptLabels
<1>13. OwnState' /\ InitTask'
  <2>1. \A t \in Live : \/ frame'[t][0] = frame[t][0]
                        \/ t = sp /\ frame'[t][0] = f
    BY <1>2, <1>4
  <2> QED BY <1>1, <1>2, <1>3, <1>5, <2>1, LiveTasks
          DEF IInv, OwnState, InitTask, RunningLabels, InterruptLabels
<1>14. Chosen' /\ ForkRoom' /\ Unborn'
  <2>1. top'.l \in {"sched_en", "ret_from_fork"}
    BY <1>1, <1>2, <1>7, <1>8
  <2> QED BY <1>1, <1>2, <1>5, <2>1 DEF IInv, Chosen, ForkRoom, Unborn
<1>15. NoLostWakeup' /\ CounterBound'
  BY <1>1, <1>5 DEF IInv, NoLostWakeup, CounterBound
<1> QED BY <1>9, <1>10, <1>11, <1>12, <1>13, <1>14, <1>15 DEF IInv

(* The slot the child gets: given out, and still empty.                    *)
LEMMA ForkPid ==
  ASSUME IInv, top.l = "fork_set"
  PROVE  top.i \in 0 .. nr_tasks - 1 /\ top.i \in Tasks /\ top.i \notin Live
<1>1. top.i \in Nat
  BY LiveTasks DEF IInv, Frame
<1> QED BY <1>1, ConstantAssumption DEF IInv, ForkRoom, TypeOK, Tasks

(* The child of copy_process starts parked in ret_from_fork.               *)
LEMMA ForkChildInv == IInv /\ ForkChild => IInv'
<1> SUFFICES ASSUME IInv, ForkChild PROVE IInv'
  OBVIOUS
<1> PICK pid : pid = top.i
  OBVIOUS
<1> DEFINE f == At("fork_en")
           g == [At("ret_from_fork") EXCEPT !.i = IF current = 0 THEN 1 ELSE 0]
<1>1. /\ TypeOK /\ top.l = "fork_set" /\ top.l # "cpu_switch_to"
      /\ task' = task \union {pid} /\ nr_tasks' = nr_tasks
      /\ state' = [state EXCEPT ![pid] = TASK_RUNNING]
      /\ counter' = [counter EXCEPT ![pid] = Priority]
      /\ preempt_count' = [preempt_count EXCEPT ![pid] = 1]
      /\ frame' = [frame EXCEPT ![pid][0] = g, ![sp][level[sp]] = f]
      /\ UNCHANGED <<current, sp, wait_array, frq, level, leaked>>
  BY DEF IInv, ForkChild
<1>2. /\ current = sp /\ sp \in Live /\ sp \in Tasks /\ Live \subseteq Tasks
      /\ level[sp] \in 0 .. MaxDepth /\ 0 \in Tasks /\ 0 \in Live
      /\ level \in [Tasks -> 0 .. MaxDepth] /\ 0 \in 0 .. MaxDepth
  BY <1>1, OnCpu, ConstantAssumption DEF TypeOK
<1>3. pid \in 0 .. nr_tasks - 1 /\ pid \in Tasks /\ pid \notin Live
  BY <1>1, ForkPid
<1>4. /\ pid \in Tasks \ Live /\ Live' = Live \union {pid} /\ pid # sp /\ pid # 0
  BY <1>1, <1>2, <1>3 DEF Live
<1>5. level[pid] = 0 /\ leaked[pid] = 0 /\ wait_array[pid] = -1
  BY <1>4 DEF IInv, Unborn
<1>6. /\ f \in Frame /\ f.l = "fork_en" /\ g \in Frame /\ g.l = "ret_from_fork"
  BY ConstantAssumption DEF At, Frame, Holding, Tasks
<1> HIDE DEF f, g
<1>7. /\ frame' \in [Tasks -> Frames]
      /\ frame'[sp][level[sp]] = f
      /\ frame'[pid][0] = g
      /\ \A t \in Tasks, k \in 0 .. MaxDepth :
           ~(t = sp /\ k = level[sp]) /\ ~(t = pid /\ k = 0) =>
             frame'[t][k] = frame[t][k]
  <2>1. frame \in [Tasks -> Frames]
    BY <1>1 DEF TypeOK
  <2> QED BY <1>1, <1>2, <1>4, <1>6, <2>1 DEF Frames
<1>8. top' = f
  BY <1>1, <1>7 DEF top
<1>9. /\ TopOf(pid)' = g
      /\ \A t \in Live : IF t = sp THEN TopOf(t)' = f ELSE TopOf(t)' = TopOf(t)
  BY <1>1, <1>2, <1>4, <1>5, <1>7 DEF TopOf
<1>10. TypeOK'
  <2>1. /\ state \in [Tasks -> {TASK_RUNNING, TASK_ZOMBIE, TASK_WAIT}]
        /\ counter \in [Tasks -> Int] /\ preempt_count \in [Tasks -> Nat]
    BY <1>1 DEF TypeOK
  <2>2. nr_tasks' \in 1 .. NR_TASKS /\ task' \in SUBSET (0 .. nr_tasks' - 1) /\ 0 \in task'
    BY <1>1, <1>3 DEF TypeOK
  <2>3. state' \in [Tasks -> {TASK_RUNNING, TASK_ZOMBIE, TASK_WAIT}]
    BY <1>1, <1>4, <2>1
  <2>4. counter' \in [Tasks -> Int] /\ preempt_count' \in [Tasks -> Nat]
    BY <1>1, <1>4, <2>1, ConstantAssumption
  <2> QED BY <1>1, <1>2, <1>4, <1>7, <2>2, <2>3, <2>4 DEF TypeOK
<1>11. PreemptCounted'
  <2>1. TopOf(sp).l \in Holding
    BY <1>1 DEF TopOf, top, Holding
  <2> QED BY <1>1, <1>2, <1>4, <1>5, <1>6, <1>9, <2>1 DEF IInv, PreemptCounted, Holding, TypeOK
<1>12. StackOwner'
  BY <1>1, <1>2, <1>4, <1>6, <1>9 DEF IInv, StackOwner
<1>13. FrameShape'
  <2> SUFFICES ASSUME NEW t \in Live \union {pid}, NEW k \in 0 .. MaxDepth
               PROVE  /\ k < level[t] => frame'[t][k].l \in Preemptible
                      /\ k <= level[t] => frame'[t][k].l # "none"
                      /\ 0 < k /\ k <= level[t] => frame'[t][k].l \in InterruptLabels
                      /\ frame'[t][0].l # "irq_ret"
    BY <1>1, <1>2, <1>4 DEF FrameShape
  <2>1. CASE t = pid
    BY <1>5, <1>6, <1>7, <2>1
  <2>2. CASE t \in Live
    <3>1. level[sp] = 0
      BY <1>1, <1>2, OnCpu DEF InterruptLabels
    <3>2. t \in Tasks /\ t # pid /\ level[t] \in 0 .. MaxDepth
      BY <1>2, <1>4, <2>2
    <3>3. /\ k < level[t] => frame[t][k].l \in Preemptible
          /\ k <= level[t] => frame[t][k].l # "none"
          /\ 0 < k /\ k <= level[t] => frame[t][k].l \in InterruptLabels
          /\ frame[t][0].l # "irq_ret"
      BY <2>2 DEF IInv, FrameShape
    <3> QED BY <1>2, <1>6, <1>7, <3>1, <3>2, <3>3
  <2> QED BY <2>1, <2>2
<1>14. OwnState'
  <2>1. \A t \in Live : \/ frame'[t][0] = frame[t][0]
                        \/ t = sp /\ level[sp] = 0 /\ frame'[t][0] = f /\ frame[t][0].l = "fork_set"
    BY <1>1, <1>2, <1>4, <1>7 DEF top
  <2>2. \A t \in Live : state'[t] = state[t] /\ wait_array'[t] = wait_array[t]
    BY <1>1, <1>2, <1>4 DEF TypeOK
  <2>3. state'[pid] = TASK_RUNNING
    BY <1>1, <1>4 DEF TypeOK
  <2> QED BY <1>4, <1>6, <1>7, <2>1, <2>2, <2>3 DEF IInv, OwnState, RunningLabels
<1>15. InitTask'
  <2>1. frame'[0][0] = frame[0][0] \/ frame'[0][0] = f
    BY <1>2, <1>4, <1>7
  <2>2. state'[0] = state[0]
    BY <1>1, <1>2, <1>4 DEF TypeOK
  <2> QED BY <1>6, <2>1, <2>2 DEF IInv, InitTask
<1>16. Chosen' /\ ForkRoom'
  BY <1>6, <1>8 DEF Chosen, ForkRoom
<1>17. Unborn'
  BY <1>1, <1>4 DEF IInv, Unborn
<1>18. NoLostWakeup' /\ CounterBound'
  <2>1. \A t \in Live : /\ state'[t] = state[t] /\ wait_array'[t] = wait_array[t]
                        /\ counter'[t] = counter[t]
    BY <1>1, <1>2, <1>4 DEF TypeOK
  <2>2. state'[pid] = TASK_RUNNING /\ wait_array'[pid] = -1 /\ counter'[pid] = Priority
    BY <1>1, <1>4, <1>5 DEF TypeOK
  <2>3. NoLostWakeup'
    BY <1>1, <1>4, <2>1, <2>2 DEF IInv, NoLostWakeup, TASK_RUNNING, TASK_WAIT
  <2>4. CounterBound'
    BY <1>4, <2>1, <2>2, ConstantAssumption DEF IInv, CounterBound
  <2> QED BY <2>3, <2>4
<1> QED BY <1>10, <1>11, <1>12, <1>13, <1>14, <1>15, <1>16, <1>17, <1>18 DEF IInv

(* What update_wait does to the parts of the invariant about sleepers.     *)
LEMMA UpdateWait ==
  ASSUME TypeOK, NoLostWakeup, Unborn, update_wait
  PROVE  /\ frq' \in 0 .. TicksPerSec - 1
         /\ wait_array' \in [Tasks -> Nat \union {-1}]
         /\ state' \in [Tasks -> {TASK_RUNNING, TASK_ZOMBIE, TASK_WAIT}]
         /\ \A t \in Tasks : state'[t] \in {state[t], TASK_RUNNING}
         /\ \A t \in Live : state[t] # TASK_WAIT =>
              state'[t] = state[t] /\ wait_array'[t] = wait_array[t]
         /\ \A t \in Tasks : wait_array[t] = -1 =>
              state'[t] = state[t] /\ wait_array'[t] = -1
         /\ \A t \in Live : state'[t] = TASK_WAIT =>
              wait_array[t] = -1 \/ wait_array'[t] >= 1
         /\ \A t \in Live : state'[t] # TASK_WAIT => wait_array'[t] = -1
<1>1. \A t \in Tasks : wait_array[t] \in Nat \union {-1} /\ state[t] \in {TASK_RUNNING, TASK_ZOMBIE, TASK_WAIT}
  BY DEF TypeOK
<1>2. Live \subseteq Tasks
  BY LiveTasks
<1>3. \A t \in Live : IF state[t] = TASK_WAIT THEN wait_array[t] = -1 \/ wait_array[t] >= 1
                                              ELSE wait_array[t] = -1
  BY DEF NoLostWakeup
<1>4. \A t \in Tasks \ Live : wait_array[t] = -1
  BY DEF Unborn
<1>5. /\ wait_array' = [t \in Tasks |->
                      IF t \in Woken THEN -1
                      ELSE IF WaitDue /\ wait_array[t] # -1 THEN wait_array[t] - 1
                      ELSE wait_array[t]]
      /\ state' = [t \in Tasks |-> IF t \in Woken THEN TASK_RUNNING ELSE state[t]]
      /\ \A t \in Tasks : t \in Woken <=> WaitDue /\ wait_array[t] = 1
  BY DEF update_wait, Woken
<1>6. frq' \in 0 .. TicksPerSec - 1
  BY ConstantAssumption DEF update_wait, WaitDue, TypeOK
<1>7. \A t \in Tasks : wait_array[t] = -1 \/ wait_array[t] >= 1
  BY <1>3, <1>4
<1>8. wait_array' \in [Tasks -> Nat \union {-1}]
  BY <1>1, <1>5, <1>7
<1>9. /\ state' \in [Tasks -> {TASK_RUNNING, TASK_ZOMBIE, TASK_WAIT}]
      /\ \A t \in Tasks : state'[t] \in {state[t], TASK_RUNNING}
  BY <1>1, <1>5
<1>10. \A t \in Tasks : wait_array[t] = -1 => state'[t] = state[t] /\ wait_array'[t] = -1
  BY <1>5
<1>11. \A t \in Live : state[t] # TASK_WAIT =>
         state'[t] = state[t] /\ wait_array'[t] = wait_array[t]
  BY <1>2, <1>3, <1>10
<1>12. \A t \in Live : /\ state'[t] = TASK_WAIT => wait_array[t] = -1 \/ wait_array'[t] >= 1
                       /\ state'[t] # TASK_WAIT => wait_array'[t] = -1
  <2> TAKE t \in Live
  <2>1. t \in Tasks
    BY <1>2
  <2>2. CASE t \in Woken
    BY <1>5, <2>1, <2>2 DEF TASK_RUNNING, TASK_WAIT
  <2>3. CASE t \notin Woken
    BY <1>1, <1>3, <1>5, <2>1, <2>3
  <2> QED BY <2>2, <2>3
<1> QED BY <1>6, <1>8, <1>9, <1>10, <1>11, <1>12

(* The wait is over, or not, for everyone but the task on the CPU: a tick  *)
(* preserves what speaks of states and of the sleepers.                    *)
LEMMA TickStates ==
  ASSUME IInv, update_wait, UNCHANGED <<nr_tasks, task, current, sp>>,
         NEW f, f = top',
         top.l = "sleep_set" => f.l = "sleep_set",
         \A t \in Live : frame'[t][0] = frame[t][0],
         f.l \in {"scan", "switch_to", "cpu_switch_to"} => f = top,
         f.l = "sched_en" => f = top
  PROVE  OwnState' /\ InitTask' /\ Chosen' /\ NoLostWakeup'
<1>1. /\ Live' = Live /\ Live \subseteq Tasks /\ 0 \in Live /\ sp \in Live
  BY LiveTasks DEF IInv, TypeOK, Live
<1>2. \A t \in Live :
         /\ state[t] # TASK_WAIT => state'[t] = state[t] /\ wait_array'[t] = wait_array[t]
         /\ wait_array[t] = -1 => state'[t] = state[t] /\ wait_array'[t] = -1
         /\ state'[t] = TASK_WAIT => wait_array[t] = -1 \/ wait_array'[t] >= 1
         /\ state'[t] # TASK_WAIT => wait_array'[t] = -1
  BY <1>1, UpdateWait DEF IInv
<1>3. \A t \in Live : state[t] = TASK_RUNNING => state'[t] = TASK_RUNNING
  BY <1>2 DEF TASK_RUNNING, TASK_WAIT
<1>4. OwnState'
  BY <1>1, <1>2, <1>3 DEF IInv, OwnState
<1>5. InitTask'
  BY <1>1, <1>3 DEF IInv, InitTask
<1>6. Chosen'
  BY <1>1, <1>3 DEF IInv, Chosen
<1>7. NoLostWakeup'
  <2> SUFFICES ASSUME NEW t \in Live
               PROVE  IF state'[t] = TASK_WAIT
                      THEN wait_array'[t] >= 1 \/
                           (wait_array'[t] = -1 /\ t = sp /\ top'.l = "sleep_set")
                      ELSE wait_array'[t] = -1
    BY <1>1 DEF NoLostWakeup
  <2>1. CASE wait_array[t] = -1
    BY <1>2, <2>1 DEF IInv, NoLostWakeup
  <2>2. CASE wait_array[t] # -1
    BY <1>2, <2>2
  <2> QED BY <2>1, <2>2
<1> QED BY <1>4, <1>5, <1>6, <1>7

LEMMA TickReturnInv == IInv /\ TickReturn => IInv'
<1> SUFFICES ASSUME IInv, TickReturn PROVE IInv'
  OBVIOUS
<1>1. /\ TypeOK /\ update_wait
      /\ counter' = [counter EXCEPT ![current] = IF @ > -MaxOverrun THEN @ - 1 ELSE @]
      /\ UNCHANGED <<nr_tasks, task, current, sp, preempt_count, level, frame, leaked>>
  BY DEF IInv, TickReturn
<1>2. Live' = Live /\ top' = top /\ current \in Tasks /\ Live \subseteq Tasks /\ \A t \in Live : TopOf(t)' = TopOf(t)
  BY <1>1, LiveTasks DEF Live, top, TopOf
<1>3. /\ frq' \in 0 .. TicksPerSec - 1
      /\ wait_array' \in [Tasks -> Nat \union {-1}]
      /\ state' \in [Tasks -> {TASK_RUNNING, TASK_ZOMBIE, TASK_WAIT}]
      /\ \A t \in Tasks : wait_array[t] = -1 => wait_array'[t] = -1
  BY <1>1, UpdateWait DEF IInv
<1>4. TypeOK'
  <2>1. counter \in [Tasks -> Int]
    BY <1>1 DEF TypeOK
  <2>2. counter' \in [Tasks -> Int]
    BY <1>1, <1>2, <2>1
  <2> QED BY <1>1, <1>2, <1>3, <2>2 DEF TypeOK
<1>5. PreemptCounted' /\ StackOwner' /\ FrameShape' /\ ForkRoom'
  BY <1>1, <1>2 DEF IInv, PreemptCounted, StackOwner, FrameShape, ForkRoom
<1>6. OwnState' /\ InitTask' /\ Chosen' /\ NoLostWakeup'
  BY <1>1, <1>2, TickStates
<1>7. Unborn'
  BY <1>1, <1>2, <1>3 DEF IInv, Unborn
<1>8. CounterBound'
  <2>1. \A t \in Live : counter[t] \in Int /\ counter[t] < 2 * Priority
    BY <1>1, <1>2 DEF IInv, CounterBound, TypeOK
  <2>2. \A t \in Live : counter'[t] = counter[t] \/ counter'[t] = counter[t] - 1
    BY <1>1, <1>2 DEF TypeOK
  <2>3. \A t \in Live : counter'[t] < 2 * Priority
    BY <2>1, <2>2, ConstantAssumption
  <2> QED BY <1>2, <2>3 DEF CounterBound
<1> QED BY <1>4, <1>5, <1>6, <1>7, <1>8 DEF IInv

(* A tick that preempts finds preemption enabled, so the interrupted frame *)
(* is outside every preempt_disable .. preempt_enable, and outside the     *)
(* window of switch_to.                                                    *)
LEMMA TickPreemptInv == IInv /\ TickPreempt => IInv'
<1> SUFFICES ASSUME IInv, TickPreempt PROVE IInv'
  OBVIOUS
<1> DEFINE f == At("_schedule")
           n == level[sp] + 1
<1>1. /\ TypeOK /\ update_wait
      /\ ~(preempt_count[current] > 0)
      /\ level[sp] < MaxDepth
      /\ counter' = [counter EXCEPT ![current] = 0]
      /\ level' = [level EXCEPT ![sp] = n]
      /\ frame' = [frame EXCEPT ![sp][n] = f]
      /\ UNCHANGED <<nr_tasks, task, current, sp, preempt_count, leaked>>
  BY DEF IInv, TickPreempt
<1>2. sp = current
  BY <1>1 DEF IInv, StackOwner
<1>3. /\ sp \in Live /\ sp \in Tasks /\ Live \subseteq Tasks /\ 0 \in Live /\ 0 \in Tasks
      /\ level[sp] \in 0 .. MaxDepth /\ 0 \in 0 .. MaxDepth /\ n \in 0 .. MaxDepth /\ n > 0
      /\ level \in [Tasks -> 0 .. MaxDepth] /\ frame \in [Tasks -> Frames]
      /\ preempt_count[sp] \in Nat /\ leaked[sp] \in Nat /\ top \in Frame
  BY <1>1, LiveTasks, ConstantAssumption DEF TypeOK
<1>4. f \in Frame /\ f.l = "_schedule"
  BY AtFrame DEF Preemptible
<1>5. preempt_count[sp] = 0 /\ leaked[sp] = 0 /\ top.l \notin Holding
  BY <1>1, <1>2, <1>3 DEF IInv, PreemptCounted, TopOf, top
<1>6. top.l \in Preemptible
  BY <1>3, <1>5 DEF Frame
<1> HIDE DEF f
<1>7. /\ frame' \in [Tasks -> Frames]
      /\ frame'[sp][n] = f
      /\ \A t \in Tasks, k \in 0 .. MaxDepth :
           ~(t = sp /\ k = n) => frame'[t][k] = frame[t][k]
  BY <1>1, <1>3, <1>4 DEF Frames
<1>8. /\ Live' = Live /\ top' = f
      /\ \A t \in Live : IF t = sp THEN TopOf(t)' = f ELSE TopOf(t)' = TopOf(t)
  BY <1>1, <1>3, <1>7 DEF Live, top, TopOf
<1>9. /\ frq' \in 0 .. TicksPerSec - 1
      /\ wait_array' \in [Tasks -> Nat \union {-1}]
      /\ state' \in [Tasks -> {TASK_RUNNING, TASK_ZOMBIE, TASK_WAIT}]
      /\ \A t \in Tasks : wait_array[t] = -1 => wait_array'[t] = -1
  BY <1>1, UpdateWait DEF IInv
<1>10. TypeOK'
  BY <1>1, <1>3, <1>7, <1>8, <1>9 DEF TypeOK
<1>11. PreemptCounted'
  BY <1>1, <1>4, <1>5, <1>8 DEF IInv, PreemptCounted, Holding
<1>12. StackOwner'
  BY <1>1, <1>2, <1>8 DEF IInv, StackOwner
<1>13. FrameShape'
  <2> SUFFICES ASSUME NEW t \in Live, NEW k \in 0 .. MaxDepth
               PROVE  /\ k < level'[t] => frame'[t][k].l \in Preemptible
                      /\ k <= level'[t] => frame'[t][k].l # "none"
                      /\ 0 < k /\ k <= level'[t] => frame'[t][k].l \in InterruptLabels
                      /\ frame'[t][0].l # "irq_ret"
    BY <1>3, <1>8 DEF FrameShape
  <2>1. /\ k < level[t] => frame[t][k].l \in Preemptible
        /\ k <= level[t] => frame[t][k].l # "none"
        /\ 0 < k /\ k <= level[t] => frame[t][k].l \in InterruptLabels
        /\ frame[t][0].l # "irq_ret"
    BY DEF IInv, FrameShape
  <2>2. frame'[t][0] = frame[t][0] /\ t \in Tasks /\ level[t] \in 0 .. MaxDepth
    BY <1>3, <1>7
  <2>3. CASE t # sp
    BY <1>1, <1>3, <1>7, <2>1, <2>2, <2>3
  <2>4. CASE t = sp /\ k = n
    BY <1>1, <1>3, <1>4, <1>7, <2>1, <2>2, <2>4 DEF InterruptLabels
  <2>5. CASE t = sp /\ k # n
    <3>1. level'[t] = n /\ frame'[t][k] = frame[t][k]
      BY <1>1, <1>3, <1>7, <2>5
    <3>2. k = level[sp] => frame[t][k] = top
      BY <2>5 DEF top
    <3> QED BY <1>3, <1>6, <2>1, <2>2, <2>5, <3>1, <3>2
  <2> QED BY <2>3, <2>4, <2>5
<1>14. OwnState' /\ InitTask' /\ Chosen' /\ NoLostWakeup'
  <2>1. top.l # "sleep_set"
    BY <1>5 DEF Holding
  <2>2. \A t \in Live : frame'[t][0] = frame[t][0]
    BY <1>3, <1>7
  <2> QED BY <1>1, <1>4, <1>8, <2>1, <2>2, TickStates
<1>15. Unborn'
  BY <1>1, <1>3, <1>8, <1>9 DEF IInv, Unborn
<1>16. CounterBound' /\ ForkRoom'
  <2>1. \A t \in Live : counter'[t] = counter[t] \/ counter'[t] = 0
    BY <1>1, <1>3 DEF TypeOK
  <2> QED BY <1>4, <1>8, <2>1, ConstantAssumption DEF IInv, CounterBound, ForkRoom
<1> QED BY <1>10, <1>11, <1>12, <1>13, <1>14, <1>15, <1>16 DEF IInv

(* The interrupted frame is at a point where preemption is enabled.        *)
LEMMA IrqReturnInv == IInv /\ IrqReturn => IInv'
<1> SUFFICES ASSUME IInv, IrqReturn PROVE IInv'
  OBVIOUS
<1> DEFINE f == At("none")
           n == level[sp] - 1
<1>1. /\ TypeOK /\ top.l = "irq_ret" /\ top.l # "cpu_switch_to"
      /\ Becomes(f)
      /\ level' = [level EXCEPT ![sp] = n]
      /\ UNCHANGED <<nr_tasks, task, current, sp, state, counter, preempt_count,
                     wait_array, frq, leaked>>
  BY DEF IInv, IrqReturn, Becomes
<1>2. /\ current = sp /\ sp \in Live /\ sp \in Tasks /\ Live \subseteq Tasks
      /\ 0 \in Live /\ 0 \in Tasks /\ level[sp] \in 0 .. MaxDepth /\ level[sp] # 0
      /\ level \in [Tasks -> 0 .. MaxDepth] /\ 0 \in 0 .. MaxDepth
      /\ preempt_count[sp] = leaked[sp] + (IF top.l \in Holding THEN 1 ELSE 0)
      /\ leaked[sp] \in Nat /\ n \in 0 .. MaxDepth /\ n < level[sp]
  BY <1>1, OnCpu, ConstantAssumption DEF TypeOK
<1>3. f \in Frame
  BY AtFrame DEF Preemptible
<1> HIDE DEF f
<1>4. /\ frame' \in [Tasks -> Frames]
      /\ \A t \in Tasks, k \in 0 .. MaxDepth :
           ~(t = sp /\ k = level[sp]) => frame'[t][k] = frame[t][k]
  BY <1>1, <1>3, BecomesFrame
<1>5. /\ Live' = Live /\ top' = frame[sp][n] /\ TopOf(sp)' = frame[sp][n]
      /\ \A t \in Live \ {sp} : TopOf(t)' = TopOf(t)
  BY <1>1, <1>2, <1>4 DEF Live, top, TopOf
<1>6. frame[sp][n].l \in Preemptible
  BY <1>2 DEF IInv, FrameShape
<1>7. TypeOK'
  BY <1>1, <1>2, <1>4, <1>5 DEF TypeOK
<1>8. PreemptCounted'
  BY <1>1, <1>2, <1>5, <1>6 DEF IInv, PreemptCounted, Holding, Preemptible
<1>9. StackOwner'
  BY <1>1, <1>2, <1>5 DEF IInv, StackOwner
<1>10. FrameShape'
  <2> SUFFICES ASSUME NEW t \in Live, NEW k \in 0 .. MaxDepth
               PROVE  /\ k < level'[t] => frame'[t][k].l \in Preemptible
                      /\ k <= level'[t] => frame'[t][k].l # "none"
                      /\ 0 < k /\ k <= level'[t] => frame'[t][k].l \in InterruptLabels
                      /\ frame'[t][0].l # "irq_ret"
    BY <1>2, <1>5 DEF FrameShape
  <2>1. /\ k < level[t] => frame[t][k].l \in Preemptible
        /\ k <= level[t] => frame[t][k].l # "none"
        /\ 0 < k /\ k <= level[t] => frame[t][k].l \in InterruptLabels
        /\ frame[t][0].l # "irq_ret"
    BY DEF IInv, FrameShape
  <2>2. frame'[t][0] = frame[t][0] /\ t \in Tasks
    BY <1>2, <1>4
  <2>3. CASE t # sp
    BY <1>1, <1>2, <1>4, <2>1, <2>2, <2>3
  <2>4. CASE t = sp
    BY <1>1, <1>2, <1>4, <2>1, <2>2, <2>4
  <2> QED BY <2>3, <2>4
<1>11. \A t \in Live : frame'[t][0] = frame[t][0]
  BY <1>2, <1>4
<1>12. OwnState' /\ InitTask'
  BY <1>1, <1>2, <1>5, <1>11 DEF IInv, OwnState, InitTask
<1>13. Chosen' /\ ForkRoom'
  BY <1>5, <1>6 DEF Chosen, ForkRoom, Preemptible
<1>14. Unborn' /\ CounterBound'
  BY <1>1, <1>2, <1>5 DEF IInv, Unborn, CounterBound
<1>15. NoLostWakeup'
  BY <1>1, <1>2, <1>5 DEF IInv, NoLostWakeup
<1> QED BY <1>7, <1>8, <1>9, <1>10, <1>12, <1>13, <1>14, <1>15 DEF IInv

-----------------------------------------------------------------------------
(* The invariant, and what it gives                                        *)

LEMMA InitInv == Init => IInv
<1> SUFFICES ASSUME Init PROVE IInv
  OBVIOUS
<1>1. /\ Live = {0} /\ 0 \in Tasks /\ Live \subseteq Tasks /\ 0 \in 0 .. MaxDepth
  BY ConstantAssumption DEF Init, Live, Tasks
<1>2. \A l \in {"boot", "none"} : At(l) \in Frame /\ At(l).l = l
  BY AtFrame DEF Preemptible
<1>3. /\ frame \in [Tasks -> Frames]
      /\ frame[0][0].l = "boot" /\ level[0] = 0
  BY <1>1, <1>2 DEF Init, Frames
<1>4. TypeOK
  BY <1>1, <1>3, ConstantAssumption DEF Init, TypeOK
<1>5. PreemptCounted /\ StackOwner /\ FrameShape
  BY <1>1, <1>3 DEF Init, PreemptCounted, StackOwner, FrameShape, TopOf, Holding, Preemptible
<1>6. OwnState /\ InitTask /\ Chosen /\ ForkRoom
  BY <1>1, <1>3 DEF Init, OwnState, InitTask, Chosen, ForkRoom, top
<1>7. Unborn /\ NoLostWakeup /\ CounterBound
  BY <1>1, ConstantAssumption DEF Init, Unborn, NoLostWakeup, CounterBound, TASK_RUNNING, TASK_WAIT
<1> QED BY <1>4, <1>5, <1>6, <1>7 DEF IInv

LEMMA StutterInv == IInv /\ UNCHANGED vars => IInv'
<1> SUFFICES ASSUME IInv, UNCHANGED vars PROVE IInv'
  OBVIOUS
<1>1. /\ UNCHANGED <<nr_tasks, task, current, sp, state, counter, preempt_count, wait_array,
                     frq, level, frame, leaked>>
      /\ Live' = Live /\ top' = top /\ \A t \in Live : TopOf(t)' = TopOf(t)
  BY DEF vars, Live, top, TopOf
<1>2. TypeOK'
  BY <1>1 DEF IInv, TypeOK
<1>3. PreemptCounted' /\ StackOwner' /\ FrameShape' /\ ForkRoom'
  BY <1>1 DEF IInv, PreemptCounted, StackOwner, FrameShape, ForkRoom
<1>4. OwnState' /\ InitTask' /\ Chosen' /\ Unborn'
  BY <1>1 DEF IInv, OwnState, InitTask, Chosen, Unborn
<1>5. NoLostWakeup' /\ CounterBound'
  BY <1>1 DEF IInv, NoLostWakeup, CounterBound
<1> QED BY <1>2, <1>3, <1>4, <1>5 DEF IInv

(* Every step of the kernel preserves the invariant.                       *)
LEMMA NextInv == IInv /\ [Next]_vars => IInv'
<1> SUFFICES ASSUME IInv, Next PROVE IInv'
  BY StutterInv
<1>1. CASE Syscall
  BY <1>1, ForkEnterInv, ExitEnterInv, SleepEnterInv DEF Syscall
<1>2. CASE KernelStep
  BY <1>2, ForkEnterInv, ForkCountInv, ForkChildInv, ForkFailInv, ForkLeaveInv, RetFromForkInv,
     KernelProcessInv, ExitZombieInv, ExitLeaveInv, SleepWaitInv, SleepSetInv,
     SleepLeaveInv, ScheduleInv, SchedEnterInv, ScanInv, ScanEndInv, RechargeInv,
     SwitchSameInv, SwitchCurrentInv, CpuSwitchToInv, SchedLeaveInv, IrqReturnInv
     DEF KernelStep, Boot
<1>3. CASE Tick
  BY <1>3, TickReturnInv, TickPreemptInv DEF Tick
<1> QED BY <1>1, <1>2, <1>3 DEF Next

THEOREM Invariant == Spec => []IInv
<1>1. Init => IInv
  BY InitInv
<1>2. IInv /\ [Next]_vars => IInv'
  BY NextInv
<1> QED BY <1>1, <1>2, PTL DEF Spec

(* Every variable keeps the values its type allows.                        *)
THEOREM TypeCorrect == Spec => []TypeOK
<1>1. IInv => TypeOK
  BY DEF IInv
<1> QED BY <1>1, Invariant, PTL

(* The preemption counts balance on every stack, whatever interleaving of  *)
(* ticks and switches.                                                     *)
THEOREM PreemptBalance == Spec => []PreemptCounted
<1>1. IInv => PreemptCounted
  BY DEF IInv
<1> QED BY <1>1, Invariant, PTL

(* The CPU leaves the stack of `current' only inside switch_to.            *)
THEOREM StackSafety == Spec => []StackOwner
<1>1. IInv => StackOwner
  BY DEF IInv
<1> QED BY <1>1, Invariant, PTL

(* No tick between the two stores of sleep_state loses a wakeup.           *)
THEOREM WakeupSafety == Spec => []NoLostWakeup
<1>1. IInv => NoLostWakeup
  BY DEF IInv
<1> QED BY <1>1, Invariant, PTL

(* Recharging keeps every counter below two priorities.                    *)
THEOREM CounterSafety == Spec => []CounterBound
<1>1. IInv => CounterBound
  BY DEF IInv
<1> QED BY <1>1, Invariant, PTL

-----------------------------------------------------------------------------
(* What a step may never do                                                *)

(* Only cpu_switch_to moves the CPU to another stack.                      *)
LEMMA OnlySwitchMoves ==
  ASSUME IInv, [Next]_vars, ~CpuSwitchTo
  PROVE  sp' = sp
<1>1. CASE Syscall
  BY <1>1 DEF Syscall, ForkEnter, ExitEnter, SleepEnter
<1>2. CASE KernelStep
  BY <1>2 DEF KernelStep, Boot, ForkEnter, ForkCount, ForkChild, ForkFail, ForkLeave, RetFromFork,
     KernelProcess, ExitZombie, ExitLeave, SleepWait, SleepSet, SleepLeave, Schedule,
     SchedEnter, Scan, ScanEnd, Recharge, SwitchSame, SwitchCurrent, SchedLeave, IrqReturn
<1>3. CASE Tick
  BY <1>3 DEF Tick, TickReturn, TickPreempt
<1>4. CASE UNCHANGED vars
  BY <1>4 DEF vars
<1> QED BY <1>1, <1>2, <1>3, <1>4 DEF Next

LEMMA DispatchStep ==
  ASSUME IInv, [Next]_vars, sp' # sp
  PROVE  state[sp'] = TASK_RUNNING
<1>1. CpuSwitchTo
  BY OnlySwitchMoves
<1> QED BY <1>1 DEF IInv, Chosen, CpuSwitchTo, Goto

(* The scheduler never gives the CPU to a sleeper or a zombie.             *)
THEOREM DispatchSafety == Spec => DispatchRunnable
<1>1. IInv /\ [Next]_vars => [sp' # sp => state[sp'] = TASK_RUNNING]_vars
  BY DispatchStep
<1> QED BY <1>1, Invariant, PTL DEF Spec, DispatchRunnable

(* No step changes the state of a zombie.                                  *)
LEMMA ZombieStep ==
  ASSUME IInv, [Next]_vars, NEW t \in Live, state[t] = TASK_ZOMBIE
  PROVE  state'[t] = TASK_ZOMBIE
<1>1. /\ t \in Tasks /\ state \in [Tasks -> {TASK_RUNNING, TASK_ZOMBIE, TASK_WAIT}]
      /\ current \in Tasks
  BY LiveTasks DEF IInv, TypeOK
<1>2. CASE ForkChild
  <2>1. top.i \notin Live
    BY <1>2 DEF IInv, ForkRoom, ForkChild
  <2> QED BY <1>1, <1>2, <2>1 DEF ForkChild
<1>3. CASE ExitZombie
  BY <1>1, <1>3 DEF ExitZombie
<1>4. CASE SleepWait
  <2>1. top.l = "sleep" /\ top.l # "cpu_switch_to" /\ top.l \notin InterruptLabels
        /\ top.l \in RunningLabels
    BY <1>4 DEF SleepWait, InterruptLabels, RunningLabels
  <2>2. current = sp /\ state[sp] = TASK_RUNNING
    BY <2>1, OnCpu, ConstantAssumption
  <2> QED BY <1>1, <1>4, <2>2 DEF SleepWait, TASK_RUNNING, TASK_ZOMBIE
<1>5. CASE Tick
  <2>1. update_wait
    BY <1>5 DEF Tick, TickReturn, TickPreempt
  <2> QED BY <2>1, UpdateWait DEF IInv, TASK_ZOMBIE, TASK_WAIT
<1>6. CASE UNCHANGED state
  BY <1>6
<1> QED BY <1>2, <1>3, <1>4, <1>5, <1>6 DEF Next, Syscall, KernelStep, Boot, ForkEnter, ForkCount, ForkFail,
        ForkLeave, RetFromFork, KernelProcess, ExitEnter, ExitLeave, SleepEnter, SleepSet,
        SleepLeave, Schedule, SchedEnter, Scan, ScanEnd, Recharge, SwitchSame, SwitchCurrent,
        CpuSwitchTo, SchedLeave, IrqReturn, vars

(* A zombie stays a zombie and never gets the CPU back.                    *)
THEOREM ZombieSafety == Spec => DeadStaysDead
<1>1. IInv /\ [Next]_vars =>
        [\A t \in Live : state[t] = TASK_ZOMBIE =>
            state'[t] = TASK_ZOMBIE /\ (sp # t => sp' # t)]_vars
  BY ZombieStep, DispatchStep DEF TASK_RUNNING, TASK_ZOMBIE
<1> QED BY <1>1, Invariant, PTL DEF Spec, DeadStaysDead

-----------------------------------------------------------------------------
(* Refinement: every step of the kernel is a step of TaskLife or a stutter *)

LEMMA LifeInitial == Init => Life!LifeInit
BY ConstantAssumption DEF Init, Life!LifeInit, Status, Left, Live, Tasks, TASK_RUNNING, TASK_ZOMBIE

(* Steps that leave the slots, the states, the sleepers and `current'      *)
(* alone are stutters of TaskLife.                                         *)
LEMMA LifeStutter ==
  ASSUME UNCHANGED <<task, state, wait_array, current>>
  PROVE  UNCHANGED Life!lifeVars
BY DEF Life!lifeVars, Status, Left, Live

LEMMA LifeSpawn == IInv /\ ForkChild => Life!LifeNext
<1> SUFFICES ASSUME IInv, ForkChild PROVE Life!LifeNext
  OBVIOUS
<1> PICK pid : pid = top.i
  OBVIOUS
<1>1. /\ TypeOK /\ top.l = "fork_set" /\ Live' = Live \union {pid}
      /\ state' = [state EXCEPT ![pid] = TASK_RUNNING]
      /\ UNCHANGED <<current, wait_array>>
  BY DEF IInv, ForkChild, Live
<1>2. state \in [Tasks -> {TASK_RUNNING, TASK_ZOMBIE, TASK_WAIT}]
  BY <1>1 DEF TypeOK
<1>3. pid \in Tasks /\ pid \notin Live
  BY <1>1, ForkPid
<1>4. wait_array[pid] = -1
  BY <1>3 DEF IInv, Unborn
<1>5. Status(pid) = "absent" /\ \A t \in Tasks : Status(t)' = IF t = pid THEN "ready" ELSE Status(t)
  BY <1>1, <1>2, <1>3, <1>4 DEF Status, TASK_RUNNING, TASK_ZOMBIE
<1>6. \A t \in Tasks : Left(t)' = Left(t)
  BY <1>1 DEF Left
<1>7. Life!Spawn(pid)
  BY <1>1, <1>3, <1>5, <1>6 DEF Life!Spawn
<1> QED BY <1>3, <1>7 DEF Life!LifeNext

LEMMA LifeExit == IInv /\ ExitZombie => Life!LifeNext
<1> SUFFICES ASSUME IInv, ExitZombie PROVE Life!LifeNext
  OBVIOUS
<1>1. /\ TypeOK /\ top.l = "exit" /\ top.l # "cpu_switch_to"
      /\ top.l \notin InterruptLabels /\ top.l \in RunningLabels
      /\ state' = [state EXCEPT ![current] = TASK_ZOMBIE]
      /\ UNCHANGED <<current, nr_tasks, task, wait_array>>
  BY DEF IInv, ExitZombie, Goto, InterruptLabels, RunningLabels
<1>2. /\ current = sp /\ sp \in Live /\ sp \in Tasks /\ state[sp] = TASK_RUNNING /\ wait_array[sp] = -1
      /\ state \in [Tasks -> {TASK_RUNNING, TASK_ZOMBIE, TASK_WAIT}]
  BY <1>1, OnCpu, ConstantAssumption DEF TASK_RUNNING, TASK_WAIT, TypeOK
<1>3. /\ Status(current) = "ready"
      /\ \A t \in Tasks : Status(t)' = IF t = current THEN "dead" ELSE Status(t)
      /\ \A t \in Tasks : Left(t)' = Left(t)
  BY <1>1, <1>2 DEF Status, Left, Live, TASK_RUNNING, TASK_ZOMBIE
<1>4. Life!Exit
  BY <1>1, <1>2, <1>3 DEF Life!Exit
<1> QED BY <1>4 DEF Life!LifeNext

LEMMA LifeSleep == IInv /\ SleepSet => Life!LifeNext
<1> SUFFICES ASSUME IInv, SleepSet PROVE Life!LifeNext
  OBVIOUS
<1> PICK n : n = top.i
  OBVIOUS
<1>1. /\ TypeOK /\ top.l = "sleep_set" /\ top.l # "cpu_switch_to"
      /\ wait_array' = [wait_array EXCEPT ![current] = n]
      /\ UNCHANGED <<current, nr_tasks, task, state>>
  BY DEF IInv, SleepSet, Goto
<1>2. level[sp] = 0 /\ n \in Nat /\ n >= 1
  BY <1>1, SleepSetTop
<1>3. /\ current = sp /\ sp \in Live /\ sp \in Tasks /\ state[sp] = TASK_WAIT /\ wait_array[sp] = -1
      /\ n \in Seconds /\ wait_array \in [Tasks -> Nat \union {-1}]
  BY <1>1, <1>2, OnCpu DEF TypeOK
<1>4. /\ Status(current) = "ready"
      /\ \A t \in Tasks : Status(t)' = IF t = current THEN "asleep" ELSE Status(t)
      /\ \A t \in Tasks : Left(t)' = IF t = current THEN n ELSE Left(t)
  BY <1>1, <1>2, <1>3 DEF Status, Left, Live, TASK_WAIT, TASK_ZOMBIE
<1>5. Life!Sleep(n)
  BY <1>1, <1>3, <1>4 DEF Life!Sleep
<1> QED BY <1>3, <1>5 DEF Life!LifeNext

LEMMA LifeDispatch == IInv /\ SwitchCurrent => Life!LifeNext
<1> SUFFICES ASSUME IInv, SwitchCurrent PROVE Life!LifeNext
  OBVIOUS
<1> PICK n : n = top.nx
  OBVIOUS
<1>1. /\ TypeOK /\ top.l = "switch_to" /\ current' = n
      /\ UNCHANGED <<nr_tasks, task, state, wait_array>>
  BY DEF IInv, SwitchCurrent
<1>2. n \in Live /\ n \in Tasks /\ state[n] = TASK_RUNNING
  BY <1>1, LiveTasks DEF IInv, Chosen
<1>3. Status(n) = "ready"
  BY <1>2 DEF IInv, NoLostWakeup, Status, TASK_RUNNING, TASK_ZOMBIE, TASK_WAIT
<1>4. \A t \in Tasks : Status(t)' = Status(t) /\ Left(t)' = Left(t)
  BY <1>1 DEF Status, Left, Live
<1>5. Life!Dispatch(n)
  BY <1>1, <1>2, <1>3, <1>4 DEF Life!Dispatch
<1> QED BY <1>2, <1>5 DEF Life!LifeNext

LEMMA LifeTick == IInv /\ Tick => [Life!LifeNext]_(Life!lifeVars)
<1> SUFFICES ASSUME IInv, Tick PROVE [Life!LifeNext]_(Life!lifeVars)
  OBVIOUS
<1>1. TypeOK /\ update_wait /\ UNCHANGED <<nr_tasks, task, current>>
  BY DEF IInv, Tick, TickReturn, TickPreempt
<1>2. /\ \A t \in Tasks : t \in Woken <=> WaitDue /\ wait_array[t] = 1
      /\ wait_array' = [t \in Tasks |->
                      IF t \in Woken THEN -1
                      ELSE IF WaitDue /\ wait_array[t] # -1 THEN wait_array[t] - 1
                      ELSE wait_array[t]]
      /\ state' = [t \in Tasks |-> IF t \in Woken THEN TASK_RUNNING ELSE state[t]]
      /\ wait_array \in [Tasks -> Nat \union {-1}]
      /\ state \in [Tasks -> {TASK_RUNNING, TASK_ZOMBIE, TASK_WAIT}]
      /\ Live' = Live /\ Live \subseteq Tasks
  BY <1>1, LiveTasks DEF update_wait, Woken, TypeOK, Live
<1>3. CASE WaitDue
  <2>1. \A t \in Tasks : \/ wait_array[t] = -1
                         \/ t \in Live /\ state[t] = TASK_WAIT /\ wait_array[t] >= 1
    BY DEF IInv, NoLostWakeup, Unborn
  <2>2. \A t \in Tasks : /\ Left(t)' = IF Status(t) = "asleep" THEN Left(t) - 1 ELSE Left(t)
                         /\ Status(t)' = IF Status(t) = "asleep" /\ Left(t) = 1
                                         THEN "ready" ELSE Status(t)
    <3> TAKE t \in Tasks
    <3>1. CASE wait_array[t] = -1
      <4>1. wait_array'[t] = -1 /\ state'[t] = state[t]
        BY <1>2, <3>1
      <4> QED BY <1>2, <3>1, <4>1 DEF Status, Left
    <3>2. CASE wait_array[t] # -1
      <4>1. t \in Live /\ state[t] = TASK_WAIT /\ wait_array[t] >= 1 /\ wait_array[t] \in Nat
        BY <1>2, <2>1, <3>2
      <4>2. Status(t) = "asleep" /\ Left(t) = wait_array[t]
        BY <3>2, <4>1 DEF Status, Left, TASK_WAIT, TASK_ZOMBIE
      <4>3. CASE wait_array[t] = 1
        <5>1. wait_array'[t] = -1 /\ state'[t] = TASK_RUNNING
          BY <1>2, <1>3, <4>3
        <5> QED BY <1>2, <4>1, <4>2, <4>3, <5>1 DEF Status, Left, TASK_RUNNING, TASK_ZOMBIE
      <4>4. CASE wait_array[t] # 1
        <5>1. wait_array'[t] = wait_array[t] - 1 /\ state'[t] = state[t]
          BY <1>2, <1>3, <3>2, <4>4
        <5> QED BY <1>2, <4>1, <4>2, <4>4, <5>1 DEF Status, Left, TASK_WAIT, TASK_ZOMBIE
      <4> QED BY <4>3, <4>4
    <3> QED BY <3>1, <3>2
  <2>3. Life!Second
    BY <1>1, <2>2 DEF Life!Second
  <2> QED BY <2>3 DEF Life!LifeNext
<1>4. CASE ~WaitDue
  <2>1. state' = state /\ wait_array' = wait_array
    BY <1>2, <1>4
  <2> QED BY <1>1, <2>1, LifeStutter
<1> QED BY <1>3, <1>4

(* SleepWait makes a task wait that TaskLife still counts as ready.        *)
LEMMA LifeWait == IInv /\ SleepWait => UNCHANGED Life!lifeVars
<1> SUFFICES ASSUME IInv, SleepWait PROVE UNCHANGED Life!lifeVars
  OBVIOUS
<1>1. /\ TypeOK /\ top.l = "sleep" /\ top.l # "cpu_switch_to"
      /\ top.l \notin InterruptLabels /\ top.l \in RunningLabels
      /\ state' = [state EXCEPT ![current] = TASK_WAIT]
      /\ UNCHANGED <<current, nr_tasks, task, wait_array>>
  BY DEF IInv, SleepWait, InterruptLabels, RunningLabels
<1>2. /\ current = sp /\ sp \in Live /\ sp \in Tasks /\ state[sp] = TASK_RUNNING
      /\ state \in [Tasks -> {TASK_RUNNING, TASK_ZOMBIE, TASK_WAIT}]
  BY <1>1, OnCpu, ConstantAssumption DEF TypeOK
<1>3. \A t \in Tasks : Status(t)' = Status(t) /\ Left(t)' = Left(t)
  BY <1>1, <1>2 DEF Status, Left, Live, TASK_RUNNING, TASK_WAIT, TASK_ZOMBIE
<1> QED BY <1>1, <1>3 DEF Life!lifeVars

LEMMA LifeStep == IInv /\ [Next]_vars => [Life!LifeNext]_(Life!lifeVars)
<1> SUFFICES ASSUME IInv, [Next]_vars PROVE [Life!LifeNext]_(Life!lifeVars)
  OBVIOUS
<1>1. CASE ForkChild \/ ExitZombie \/ SleepSet \/ SwitchCurrent
  BY <1>1, LifeSpawn, LifeExit, LifeSleep, LifeDispatch
<1>2. CASE SleepWait
  BY <1>2, LifeWait
<1>3. CASE Tick
  BY <1>3, LifeTick
<1>4. CASE UNCHANGED <<task, state, wait_array, current>>
  BY <1>4, LifeStutter
<1> QED BY <1>1, <1>2, <1>3, <1>4 DEF Next, Syscall, KernelStep, Boot, ForkEnter, ForkCount, ForkFail,
        ForkLeave, RetFromFork, KernelProcess, ExitEnter, ExitLeave, SleepEnter,
        SleepLeave, Schedule, SchedEnter, Scan, ScanEnd, Recharge, SwitchSame,
        CpuSwitchTo, SchedLeave, IrqReturn, vars

(* The kernel implements what TaskLife promises to its tasks.              *)
THEOREM Refinement == Spec => ImplementsLife
<1>1. Init => Life!LifeInit
  BY LifeInitial
<1>2. IInv /\ [Next]_vars => [Life!LifeNext]_(Life!lifeVars)
  BY LifeStep
<1> QED BY <1>1, <1>2, Invariant, PTL DEF Spec, ImplementsLife, Life!LifeSpec

=============================================================================
