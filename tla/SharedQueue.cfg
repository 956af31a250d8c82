\* Four threads, three elements and a queue of two: full, empty and wrapped
\* around, with producers and consumers asleep at once.  No symmetry: two of
\* the properties are temporal.
SPECIFICATION FairSpec
CONSTANTS
  Threads = {t1, t2, t3, t4}
  Main = main
  Elements = {e1, e2, e3}
  Capacity = 2
  NULL = null
INVARIANTS
  TypeOK
  RingConsistent
  SingleOwner
  WaitingCounts
  NoMissedWakeup
  NoUseAfterFree
PROPERTIES
  ImplementsFifo
  DestroyCompletes
CHECK_DEADLOCK FALSE
