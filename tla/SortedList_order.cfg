SPECIFICATION Spec
CONSTANTS
  Lists = {l1}
  Elements = {1, 2, 3}
  Uninit = Uninit
INVARIANTS
  StaysSorted
