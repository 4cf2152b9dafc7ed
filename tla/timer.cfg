SPECIFICATION TimerSpec
CONSTANTS
  Thread = {main, t1, t2}
  Main = main
  Idle = idle_thread
  Lock = {}
  Sema = {io}
  None = NULL
  PRI_MAX = 1
  PRI_DEFAULT = 0
  TIME_SLICE = 2
  MaxValue = 1
  active_sched_policy = "PRIO"
  Durations = {1, 2}
  MaxTicks = 3
SYMMETRY Symmetry
CHECK_DEADLOCK FALSE
INVARIANTS TimerTypeOK OneListOrAsleep NoLostWakeup
PROPERTIES WakesOnTime TickRunsHighest
