SPECIFICATION Spec
CONSTANTS
  Conns = {c1, c2}
  Console = Console
  Kinds = {"ok", "crash", "malformed", "undecodable"}
  MaxRequests = 2
  HangUps = TRUE
CHECK_DEADLOCK FALSE
INVARIANTS OwnOutput
