SPECIFICATION Spec
CONSTANTS
  Thread = {main, t1, t2}
  Main = main
  Idle = idle_thread
  Lock = {a}
  Sema = {}
  None = NULL
  PRI_MAX = 1
  PRI_DEFAULT = 0
  TIME_SLICE = 2
  MaxValue = 1
  active_sched_policy = "FIFO"
CHECK_DEADLOCK FALSE
INVARIANT OneList
