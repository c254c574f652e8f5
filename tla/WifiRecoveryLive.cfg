SPECIFICATION FairSpec
CONSTANTS
  n1 = n1
  n2 = n2
  Nets = {n1}
  SsidOf <- MCSsidOf
  Policies = {"unset", "on"}
  Unset = "unset"
  Absent = Absent
  Ops = {o1}
  Supervisor = Supervisor
  Nobody = Nobody
  NoTxn = NoTxn
  Cleared = Cleared
  Lifetime = 1
  MaxNow = 2
  MaxBoots = 1
PROPERTIES PolicyPreserved PendingResolved
