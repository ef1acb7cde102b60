\* Two instances that share the VPU.
SPECIFICATION Spec
CONSTANTS
  Insts = {i1, i2}
  Frames <- TwoFrames
  RingSize = 2
  LateReturns = FALSE
  None = None
  i1 = i1
  i2 = i2
  f1 = f1
  f2 = f2
\* The model ends where commands of two instances cross.
CHECK_DEADLOCK FALSE
INVARIANTS RingSound HeldIntact PausedCommandKept
