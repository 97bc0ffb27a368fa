SPECIFICATION Spec
CONSTANTS
  PAGING_PAGES = 16
  PTRS_PER_TABLE = 2
  MAX_PROCESS_PAGES = 3
  Tasks = {t1, t2, t3, t4}
  root = t1
  UserPages = {0, 1, 2, 3}
  Words = {a}
  Zero = Zero
  Code = Code
  Stale = Stale
  NoPage = NoPage
  Unborn = Unborn
  Ended = Ended
INVARIANTS
  TypeOK
  PagesOwned
  NoPageLost
  UserPagesFit
PROPERTIES
  ImplementsSpaces
CHECK_DEADLOCK FALSE
