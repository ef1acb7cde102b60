CONSTANTS
  Clients = {c1, c2}
  QueueSize = 2
  MaxSessions = 1
  MaxDos = 1
  Spurious = TRUE
  None = None
SPECIFICATION Spec
CHECK_DEADLOCK FALSE
INVARIANT AnsweredBeforeReply
