SPECIFICATION Spec
CONSTANTS
  Thread = {1, 2, 3, 4}
  Root = 1
  None = NULL
  ExitCode = {7}
  ByOthers = {}
  MaxProcesses = 3
CHECK_DEADLOCK FALSE
INVARIANT PcbNotFreedFirst
