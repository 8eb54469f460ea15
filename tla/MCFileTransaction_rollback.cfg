SPECIFICATION Spec
CONSTANTS
  Writers = {p1}
  Pids = {p1}
  PidOf <- OwnPid
  Ops = {"copy_back"}
  Data = {d1}
  Original = original
  Torn = torn
  None = none
  Inodes = {1, 2, 3}
  TargetExists = TRUE
  Failures = {"oserror"}
  MaxFailures = 2
  MaxCalls = 1
CHECK_DEADLOCK FALSE
INVARIANTS RollbackSemantics
