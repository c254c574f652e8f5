-------------------------- MODULE WifiRecoveryInv --------------------------
(***************************************************************************)
(* The inductive invariant behind the safety properties of WifiRecovery:   *)
(* what the code relies on at each program point, and which combinations   *)
(* of journal records and file contents can be on the disk together.       *)
(***************************************************************************)
EXTENDS WifiRecovery

Locked == LockedCalls \cup RestoreSteps

\* A process inside a locked section holds the lock, and the supervisor only
\* ever restores.
LockInv ==
  /\ \A p \in Procs : pc[p] \in Locked => lock = p
  /\ pc[Supervisor] \in {"idle", "down"} \cup RestoreSteps

\* The record of an owner is the one its prepare() built, from the claim on.
RecInv ==
  \A o \in Ops :
    IF owns[o]
      THEN /\ rec[o].phase = "Pending"
           /\ rec[o].txn = o
           /\ rec[o].prev \in Files
           /\ rec[o].boot <= boot
           /\ pc[o] \notin {"idle", "prepare"}
           /\ pc[o] \notin {"done", "dead"} => rec[o].boot = boot
      ELSE pc[o] \in {"idle", "prepare", "revert", "done", "dead"}

\* Every record on the disk was written by its owner's prepare(), or is the
\* resolution of such a record.
DiskInv ==
  /\ journal \in jdisk
  /\ file \in fdisk
  /\ \A r \in jdisk :
       \/ r.phase = "None" /\ r.txn = NoTxn
       \/ /\ r.phase # "None"
          /\ r.txn \in Ops
          /\ owns[r.txn]
          /\ pc[r.txn] # "begin"
          /\ r = IF r.phase = "Pending" THEN rec[r.txn]
                 ELSE Resolved(rec[r.txn], r.phase)

\* A transaction is not both committed and restored, and while it is pending
\* no resolution of it is on the disk.
OneFate ==
  \A r, q \in jdisk : r.txn = q.txn =>
    /\ r.phase = "Committed" => q.phase # "Restored"
    /\ r = journal /\ r.phase = "Pending" => q = r

\* Which file goes with which record.
FileInv ==
  /\ \A r \in jdisk :
       /\ r.phase = "None"      => fdisk = {file}
       /\ r.phase = "Pending"   => fdisk \subseteq {r.prev, cand[r.txn]}
       /\ r.phase = "Committed" => fdisk = {cand[r.txn]}
       /\ r.phase = "Restored"  => fdisk = {rec[r.txn].prev}
  /\ journal.phase = "Pending" /\ jdisk # {journal} => fdisk = {journal.prev}

\* The transaction of owner o is the one the journal has pending.
Holds(o) == journal.phase = "Pending" /\ journal.txn = o

\* What an owner may rely on at each step.  Between its calls the supervisor
\* can interfere, but only once the record is due.
OwnerInv ==
  \A o \in Ops :
    /\ pc[o] = "begin" => rec[o].prev = file /\ ~Unresolved(journal)
    /\ pc[o] \in {"replace", "replaceSync", "apply", "commitSave"} => Holds(o)
    /\ pc[o] \in {"activate", "replace", "replaceSync", "apply", "watch",
                  "confirm", "commitSave"} /\ Holds(o) => jdisk = {journal}
    /\ pc[o] = "replaceSync" => file = cand[o]
    /\ pc[o] \in {"apply", "commitSave"} => fdisk = {cand[o]}
    /\ pc[o] \in {"watch", "confirm"} /\ Holds(o) =>
         (fdisk = {cand[o]} /\ (live = file \/ job)) \/ Due(journal)
    /\ pc[o] = "commitSave" => live = file \/ job
    /\ pc[o] = "commitSync" => journal.phase = "Committed" /\ journal.txn = o

\* What a restoration may rely on, whoever runs it.
RestoreInv ==
  \A p \in Procs :
    /\ pc[p] \in RestoreSteps \ {"restoredSync"} =>
         /\ journal.phase = "Pending"
         /\ p \in Ops => journal.txn = p
         /\ p = Supervisor => Due(journal)
    /\ pc[p] = "restoreFileSync" => file = journal.prev
    /\ pc[p] \in {"reconfigure", "restoredSave"} => fdisk = {journal.prev}
    /\ pc[p] = "restoredSave" => live = file \/ job
    /\ pc[p] = "restoredSync" =>
         journal.phase = "Restored" /\ (p \in Ops => journal.txn = p)

\* What has been reported stays true of everything that may survive.
ReportInv ==
  \A o \in Ops : \A r \in jdisk : r.txn = o =>
    /\ change[o] = "Committed" => r.phase = "Committed"
    /\ change[o] = "RolledBack" /\ owns[o] =>
         /\ r.phase # "Committed"
         /\ fdisk = {rec[o].prev}
         /\ r = journal /\ r.phase = "Pending" => Due(journal)

\* A report is final.
DoneInv ==
  \A o \in Ops :
    change[o] \in {"Committed", "RolledBack", "RecoveryRequired"} =>
      pc[o] = "done"

\* The inductive invariant the proofs of WifiRecoveryProofs use.
IInv ==
  /\ LockInv /\ RecInv /\ DiskInv /\ OneFate /\ FileInv
  /\ OwnerInv /\ RestoreInv /\ ReportInv /\ DoneInv /\ ServiceFollowsFile
=============================================================================
