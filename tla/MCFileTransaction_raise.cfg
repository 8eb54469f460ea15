SPECIFICATION Spec
CONSTANTS
  Writers = {p1}
  Pids = {p1}
  PidOf <- OwnPid
  Ops = {"write", "create_backup", "overwrite_original", "copy_back"}
  Data = {d1, d2}
  Original = original
  Torn = torn
  None = none
  Inodes = {1, 2, 3, 4, 5, 6}
  TargetExists = FALSE
  Failures = {"oserror"}
  MaxFailures = 1
  MaxCalls = 3
CHECK_DEADLOCK FALSE
INVARIANTS OkIsDurable
PROPERTIES AllOrNothing CleansUp
