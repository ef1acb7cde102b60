CONSTANTS
  Files = {f1}
  Threads = {t1}
  MaxInst = 2
  EncMax = 1
  DecMax = 1
  None = None
SPECIFICATION Spec
INVARIANT FirmwareIntact
