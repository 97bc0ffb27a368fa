SPECIFICATION Spec
CONSTANTS
  PAGING_PAGES = 6
  Tasks = {t0, t1, t2,t3}
  root = t0
INVARIANTS
  PagesAccounted
CHECK_DEADLOCK FALSE
