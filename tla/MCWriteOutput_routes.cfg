SPECIFICATION Spec
CONSTANTS
  a = a
  b = b
  x = x
  y = y
  z = z
  Procs = {p1, p2}
  Paths = {a, b, x, y, z}
  Existing = {a, b}
  NoFile = NoFile
  NoImage = NoImage
  Requests <- AllRequests
  MaxFaults = 3
CHECK_DEADLOCK FALSE
INVARIANTS TypeOK NothingLost NeverOverwrites HonestResult OthersWritten
