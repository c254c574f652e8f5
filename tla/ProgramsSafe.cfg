SPECIFICATION Spec
CONSTANTS
  Paths = {"p1", "p2"}
  MaxItems = 2
  MaxTemps = 2
  ClipboardMaxBytes = 1
  SkipLimit = 2
  Panels = {p1, p2}
  Helpers = {h1, h2}
  Nobody = Nobody
  Cooldown = 2
  ScanTime = 3
  MaxScans = 2
  MaxQueue = 2
  Collectors = {a, b}
  Fresh = 1
  CollectMax = 1
  SnapshotTime = 4
  Block = 3
  MaxByte = 3
  MaxSize = 4
  Consoles = {"a", "b"}
  Clients = {"k1"}
SYMMETRY Symmetry
CHECK_DEADLOCK FALSE
INVARIANTS
  WindowSafe
  NetworkListsSafe
  OldFilesSafe
PROPERTY
  StepsSafe
