\* Two sessions on one object, two data, both key sizes
SPECIFICATION Spec
CONSTANTS
  Sessions = {s1, s2}
  KeySizes = {16, 32}
  NULL = NULL
  Objects = {image}
  Data = {d1, d2}
  Absent = Absent
  Empty = Empty
  NoReply = NoReply
  Idle = Idle
INVARIANTS
  TypeOK
  HandlesOwned
  OperationKeyed
PROPERTY
  ImplementsStore
