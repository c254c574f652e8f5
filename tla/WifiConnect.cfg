SPECIFICATION Spec
CONSTANTS
  Windows = {w1, w2}
  NoWindow = NoWindow
  Backlog = 2
INVARIANTS TypeOK PendingHasSession ShownIsTrue
PROPERTIES CommittedByOwnConfirm ImplementsChanges
SYMMETRY Symmetry
CHECK_DEADLOCK FALSE
