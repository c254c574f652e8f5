SPECIFICATION Spec
CONSTANTS
  Windows = {w1}
  NoWindow = NoWindow
  Backlog = 2
INVARIANT RejectedIsDefinitive
CHECK_DEADLOCK FALSE
