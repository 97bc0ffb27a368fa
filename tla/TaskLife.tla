------------------------------ MODULE TaskLife ------------------------------
(***************************************************************************)
(* What the kernel of p1/p1-5-2 promises to its tasks, with no stacks, no  *)
(* counters and no interrupts: one task holds the CPU, only a ready task   *)
(* is given the CPU, only the task on the CPU goes to sleep or dies, and a *)
(* sleeper gets ready again exactly after the seconds it asked for.        *)
(* KernelSched implements this specification.                              *)
(***************************************************************************)
EXTENDS Naturals

CONSTANTS Tasks,    \* slots of the task table
          Seconds   \* lengths of sleep a task may ask for

VARIABLES status,   \* status of each slot
          left,     \* seconds each sleeper still has to sleep
          cpu       \* the task that holds the CPU

lifeVars == <<status, left, cpu>>

LifeInit == /\ status = [t \in Tasks |-> IF t = 0 THEN "ready" ELSE "absent"]
            /\ left = [t \in Tasks |-> 0]
            /\ cpu = 0

Spawn(t) == /\ status[t] = "absent"
            /\ status' = [status EXCEPT ![t] = "ready"]
            /\ UNCHANGED <<left, cpu>>

Sleep(n) == /\ status[cpu] = "ready"
            /\ status' = [status EXCEPT ![cpu] = "asleep"]
            /\ left' = [left EXCEPT ![cpu] = n]
            /\ UNCHANGED cpu

(* One second passes for every sleeper at once. *)
Second == /\ left' = [t \in Tasks |-> IF status[t] = "asleep" THEN left[t] - 1
                                                              ELSE left[t]]
          /\ status' = [t \in Tasks |->
                          IF status[t] = "asleep" /\ left[t] = 1 THEN "ready"
                                                                 ELSE status[t]]
          /\ UNCHANGED cpu

Exit == /\ status[cpu] = "ready"
        /\ status' = [status EXCEPT ![cpu] = "dead"]
        /\ UNCHANGED <<left, cpu>>

Dispatch(t) == /\ status[t] = "ready"
               /\ cpu' = t
               /\ UNCHANGED <<status, left>>

LifeNext == \/ \E t \in Tasks : Spawn(t) \/ Dispatch(t)
            \/ \E n \in Seconds : Sleep(n)
            \/ Second
            \/ Exit

LifeSpec == LifeInit /\ [][LifeNext]_lifeVars
=============================================================================
