---------------------------- MODULE KernelTimed -----------------------------
(***************************************************************************)
(* KernelSched with the distance between two timer interrupts.  The timer  *)
(* is reloaded with `interval' = 2^26/10 counts (timer.c:7, 55), 100 ms,   *)
(* some thousand times the length of _schedule.  So after a tick at least  *)
(* Gap steps of kernel code are executed before the next one.  In user     *)
(* mode any time may pass: a tick may come at once, and a system call may  *)
(* be made with any part of the interval left.                             *)
(***************************************************************************)
EXTENDS KernelSched

CONSTANT Gap

ASSUME GapAssumption == Gap \in Nat

VARIABLE gap    \* steps of kernel code since the last tick, up to Gap

timedVars == <<vars, gap>>

TimedInit == Init /\ gap = 0

(* handle_generic_timer_irq: gen_timer_reset(interval), then timer_tick    *)
TimedTick == /\ gap = Gap \/ top.l = "user"
             /\ Tick
             /\ gap' = 0

TimedKernelStep == /\ KernelStep
                   /\ gap' = IF gap < Gap THEN gap + 1 ELSE gap

TimedSyscall == Syscall /\ gap' \in {gap, Gap}

TimedNext == TimedSyscall \/ TimedKernelStep \/ TimedTick

(* The CPU executes kernel code, and the timer keeps ticking.  User code   *)
(* is under no obligation to make a system call.                           *)
TimedSpec == /\ TimedInit /\ [][TimedNext]_timedVars
             /\ WF_timedVars(TimedKernelStep) /\ WF_timedVars(TimedTick)
=============================================================================
