

SPECIFICATION Spec
CONSTANTS
  Threads = {t1, t2, t3}
  Main = main
  Elements = {e1, e2, e3}
  Capacity = 1
  NULL = null
INVARIANT ElementsDestroyed
CHECK_DEADLOCK FALSE
