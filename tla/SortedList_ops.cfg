SPECIFICATION Spec
CONSTANTS
  Lists = {l1, l2}
  Elements = {e1, e2, e3, e4}
  Uninit = Uninit
INVARIANTS
  TypeOK
  DeleteTellsMembers
  LengthCounts
PROPERTIES
  ImplementsLists
