SPECIFICATION Spec
CONSTANTS
  Files <- FastStartFiles
  Plans <- ExecutorPlans
  Growths <- QtGrowths
  XmpSizes = {3}
  Max32 = 68
CHECK_DEADLOCK FALSE
INVARIANTS MediaKeptByEveryWrite
