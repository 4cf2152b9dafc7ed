SPECIFICATION Spec
CONSTANTS
  Thread = {t1, t2}
  guard = lock
  None = NULL
  MaxUses = 2
CHECK_DEADLOCK FALSE
INVARIANT SignalFindsWaiter
