CONSTANTS NR_TASKS = 3
          Priority = 1
          TicksPerSec = 1
          Seconds = {1, 2}
          MayFail = TRUE
          MaxDepth = 2
          MaxOverrun = 1
          MaxLeak = 1
SPECIFICATION Spec
INVARIANTS TypeOK PreemptCounted StackOwner NoLostWakeup CounterBound IInv
PROPERTIES DispatchRunnable DeadStaysDead ImplementsLife
