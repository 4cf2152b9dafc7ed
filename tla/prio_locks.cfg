SPECIFICATION Spec
CONSTANTS
  Thread = {main, t1, t2}
  Main = main
  Idle = idle_thread
  Lock = {a, b}
  Sema = {}
  None = NULL
  PRI_MAX = 2
  PRI_DEFAULT = 1
  TIME_SLICE = 2
  MaxValue = 1
  active_sched_policy = "PRIO"
SYMMETRY Symmetry
CHECK_DEADLOCK FALSE
INVARIANTS TypeOK LockInv OneList ReadySorted NoLostWakeup NoStaleDonation
PROPERTIES WakesHighest LocksAreMutexes
