\* Three connections for two slots: slots are reused and clients refused,
\* and requests of several clients wait in the queue.  One join may fail, so that
\* the thread it leaves behind runs on beside one that is joined.
\* No symmetry: two of the properties are temporal.
SPECIFICATION FairSpec
CONSTANTS
  Conns = {c1, c2, c3}
  MaxClients = 2
  RequestCap = 2
  MaxUnjoined = 1
  NULL = null
INVARIANTS
  TypeOK
  ConnectionsAccounted
  EachInItsSlot
  NoUseAfterFree
  
PROPERTIES
  ClientAnswered
  ShutdownCompletes
CHECK_DEADLOCK FALSE
