CONSTANTS
  Queuers = {q1, q2}
  Dequeuers = {d1, d2}
  Mems = {m1, m2, m3}
  VIP_MAX_BUF_SIZE = 3
  Modes = {"CLIPPER", "DECIMATOR", "CLIP_DEC2"}
  None = None
  Blocks = {b1, b2, b3}
  Fds = {f1, f2}
  Sizes = {1, 2}
  Nil = Nil
  MaxTroubles = 2
  MaxFailed = 1
SPECIFICATION TablesSpec
SYMMETRY Symmetry
CONSTRAINT Undisturbed
CHECK_DEADLOCK FALSE
INVARIANTS
  SlotsAccounted
  PairsStayTogether
  SurfacesAccounted
  DrawsWhatIsNamed
