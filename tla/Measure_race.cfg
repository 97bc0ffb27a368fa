SPECIFICATION Spec
CONSTANTS
  NR_SAMPLES = 3
  Threads = {t1, t2}
  MainSamples = 4
  MainRunning = 1
  main = main
  None = None
INVARIANTS
  SampleCount
