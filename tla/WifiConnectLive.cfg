SPECIFICATION FairSpec
CONSTANTS
  Windows = {w1}
  NoWindow = NoWindow
  Backlog = 2
PROPERTY ChangeEnds
CHECK_DEADLOCK FALSE
