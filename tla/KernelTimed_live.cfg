CONSTANTS NR_TASKS = 3
          Priority = 1
          TicksPerSec = 2
          Seconds = {1}
          MayFail = TRUE
          MaxDepth = 1
          MaxOverrun = 1
          MaxLeak = 1
          Gap = 20
SPECIFICATION TimedSpec
PROPERTIES SleeperWakes RunnableRuns
