SPECIFICATION FairSpec
CONSTANTS
  Thread = {t1, t2, t3}
  guard = lock
  None = NULL
  MaxUses = 2
CHECK_DEADLOCK FALSE
INVARIANTS TypeOK SignalledOnce
PROPERTIES ImplementsReadersWriters WritersFirst WaitersEnter
