SPECIFICATION Spec
CONSTANTS
  Writers = {p1, p2}
  Pids = {p1, p2}
  PidOf <- OwnPid
  Ops = {"write", "overwrite_original"}
  Data = {d1, d2}
  Original = original
  Torn = torn
  None = none
  Inodes = {1, 2, 3, 4, 5}
  TargetExists = TRUE
  Failures = {"oserror", "interrupt", "kill", "power"}
  MaxFailures = 1
  MaxCalls = 2
CHECK_DEADLOCK FALSE
INVARIANTS TypeOK TargetWhole
PROPERTIES AtomicSpec
