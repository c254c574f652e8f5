SPECIFICATION Spec
CONSTANTS
  n1 = n1
  n2 = n2
  Nets <- MCNets
  SsidOf <- MCSsidOf
  Policies = {"unset"}
  Unset = "unset"
  Absent = Absent
  Ops = {o1, o2}
  Supervisor = Supervisor
  Nobody = Nobody
  NoTxn = NoTxn
  Cleared = Cleared
  Lifetime = 1
  MaxNow = 2
  MaxBoots = 1
INVARIANTS TypeOK CrashSafe CommittedIsFinal RolledBackIsRestored CommittedWasReady ServiceFollowsFile RestoresOwnTransaction
PROPERTIES PendingNotOverwritten ImplementsSwitch
SYMMETRY Symmetry
