CONSTANTS
  Files = {f1, f2, f3}
  Threads = {t1, t2}
  MaxInst = 2
  EncMax = 1
  DecMax = 1
  None = None
SYMMETRY Symmetry
SPECIFICATION Spec
INVARIANTS
  TypeOK
  HandlesOwned
  HwDiscipline
  QuotaCoversHolders
  QuotaExact
  NoStaleInit
  FirmwareSurvives
PROPERTY LastCloseOff
