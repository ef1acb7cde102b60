CONSTANTS
  Players = {p1, p2}
  None = None
  MaxBlocks = 3
SPECIFICATION PlayersSpec
INVARIANTS
  HandleAccounted
  OpenMeansPlayable
  StopsAndWaits
  DevicesAccounted
PROPERTY
  CloseReturns
\* A program may end; and one that waits for a playback never begun may wait on
\* what the constructor left in m_bRunning.
CHECK_DEADLOCK FALSE
