SPECIFICATION Spec
CONSTANTS
  Thread = {1, 2, 3, 4}
  Root = 1
  None = NULL
  ExitCode = {7}
  ByOthers = {"exit"}
  MaxProcesses = 3
CHECK_DEADLOCK FALSE
PROPERTY ExitCodeKept
