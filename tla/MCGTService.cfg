CONSTANTS
  Clients = {c1, c2}
  QueueSize = 2
  MaxSessions = 3
  MaxDos = 1
  Spurious = FALSE
  None = None
SPECIFICATION Spec
CHECK_DEADLOCK FALSE
INVARIANTS
  OneCommandOneAnswer
  NoLostWakeup
  NoStopUnderUse
PROPERTIES
  RestartAfterExit
  StopReturns
  KeepsPromise
