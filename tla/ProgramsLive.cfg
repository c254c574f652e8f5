SPECIFICATION LiveSpec
CONSTANTS
  Headers = {1, 2, 3}
  Sizes = {0, 1, 4, 5}
  Cap = 2
  HeaderMax = 3
  FileMax = 4
  FileReplyMax = 100
  AdminReplyMax = 4
  Addresses = 2
  ConnectTimeout = 2
  Pids = {1, 2}
  MaxTries = 2
  Consoles = {"a"}
  Limit = 2
  MaxAlerts = 4
  Clients = {"k"}
  Users = {"u"}
CHECK_DEADLOCK FALSE
INVARIANTS
  CallSafe
  ProcessSafe
  MigrationSafe
  ConsolesSafe
PROPERTIES
  WorkEnds
  ConsolesCatchUp
