SPECIFICATION Spec
CONSTANTS
  numThreads = 3
  iterations = 2
  num_hashtables = 2
  KeyValues = {1, 2}
  None = None
INVARIANTS
  KeysStay
PROPERTIES
  Verifies
