SPECIFICATION FairSpec
CONSTANTS
  Threads = {t1, t2, t3}
  Iterations = 2
  NoThread = NoThread
INVARIANTS
  TypeOK
  Exact
  ZeroAtJoin
  DriftBound
PROPERTIES
  ImplementsAtomic
  Joins
  RetriesPaid
