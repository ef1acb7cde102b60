CONSTANTS
  Gops = {0, 2, 3}
  MaxPics = 4
  MaxFrames = 2
  MinFrames = {1, 2}
  Seqs = {s1, s2}
  Stamps = {t1, t2}
  Unset = Unset
  hInstanceBuf = hInstanceBuf
  hBitStreamBuf = hBitStreamBuf
  hColMvBuffer = hColMvBuffer
  hSliceBuffer = hSliceBuffer
  hUserDataBuffer = hUserDataBuffer
SPECIFICATION Spec
SYMMETRY Symmetry
CONSTRAINT TroubleWithoutPictures
CHECK_DEADLOCK FALSE
INVARIANTS
  EncMemoryAccounted
  ReadyMeansSetUp
  DecMemoryAccounted
  StampsKept
PROPERTY
  KeyFrameInterval
