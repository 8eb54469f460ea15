SPECIFICATION Spec
CONSTANTS
  Writers = {p1}
  Pids = {p1}
  PidOf <- OwnPid
  Ops = {"create_backup"}
  Data = {d1, d2}
  Original = original
  Torn = torn
  None = none
  Inodes = {1, 2, 3, 4, 5}
  TargetExists = TRUE
  Failures = {"oserror", "interrupt", "kill", "power"}
  MaxFailures = 3
  MaxCalls = 3
CHECK_DEADLOCK FALSE
INVARIANTS TargetWhole OriginalKept OkIsDurable
PROPERTIES CleansUp
