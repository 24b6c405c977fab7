CONSTANTS
  Process = {w1, w2}
  SessionMax = 2
SPECIFICATION LifecycleSpec
PROPERTY ExitFinishesProcesses
CHECK_DEADLOCK FALSE
