SPECIFICATION Spec
CONSTANTS
  Conns = {c1, c2}
  Console = Console
  Kinds = {"ok", "huge", "crash", "malformed", "undecodable", "long"}
  MaxRequests = 2
  HangUps = TRUE
CHECK_DEADLOCK FALSE
INVARIANTS TypeOK StreamsRestored ForeignOnlyFromEnded InOrder
PROPERTIES Answered
