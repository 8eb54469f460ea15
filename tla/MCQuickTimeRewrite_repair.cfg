SPECIFICATION Spec
CONSTANTS
  Files <- AllFiles
  Plans <- AllPlans
  Growths <- QtGrowths
  XmpSizes = {3, 60, 61}
  Max32 = 68
CHECK_DEADLOCK FALSE
INVARIANTS TypeOK MediaKept EntriesFit CleanNeverBlocked
