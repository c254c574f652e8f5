SPECIFICATION Spec
CONSTANTS
  Windows = {w1}
  NoWindow = NoWindow
  Backlog = 2
INVARIANT OnlyUnrecoveredBlocks
CHECK_DEADLOCK FALSE
