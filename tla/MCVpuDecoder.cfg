\* One instance: the ring and the display flags.
SPECIFICATION Spec
CONSTANTS
  Insts = {i1}
  Frames <- OneFrames
  RingSize = 3
  LateReturns = TRUE
  None = None
  i1 = i1
  i2 = i2
  f1 = f1
  f2 = f2
SYMMETRY Symmetry
INVARIANTS RingSound FramesAccounted HeldIntact
