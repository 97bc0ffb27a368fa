SPECIFICATION WorkersSpec
CONSTANTS
  NumThreads = 3
  Iterations = 2
  PartCounts = {2, 3, 4}
  Builds = {"biglock", "multilists", "lb"}
  None = None
  Uninit = Uninit
INVARIANTS
  AllOnce
PROPERTIES
  WholeInsertions
  Joins
