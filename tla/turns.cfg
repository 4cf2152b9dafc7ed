SPECIFICATION FairSpec
CONSTANTS
  Thread = {main, t1, t2}
  Main = main
  Idle = idle_thread
  Lock = {a}
  Sema = {io}
  None = NULL
  PRI_MAX = 0
  PRI_DEFAULT = 0
  TIME_SLICE = 2
  MaxValue = 1
  active_sched_policy = "PRIO"
CHECK_DEADLOCK FALSE
PROPERTY ReadyRuns
