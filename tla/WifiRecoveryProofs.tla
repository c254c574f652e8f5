------------------------- MODULE WifiRecoveryProofs -------------------------
(***************************************************************************)
(* Machine-checked proofs about WifiRecovery, for any number of owners,    *)
(* profiles, DHCPv6 policies and reboots and any confirmation window.      *)
(*                                                                         *)
(* IInv (module WifiRecoveryInv) is shown to be inductive: one lemma per   *)
(* action, with a step per group of conjuncts.  The frame lemmas come      *)
(* first; they say what a kind of step (no write, an fsync, a resolution)  *)
(* does to the conjuncts about the disk.                                   *)
(***************************************************************************)
EXTENDS WifiRecoveryInv, TLAPS
\* Draft keeps the type of a configuration.
LEMMA DraftType ==
  ASSUME NEW net \in Nets, NEW previous \in Files
  PROVE  Draft(net, previous) \in Configs
  BY NetplanAssumption DEF Draft, Files, Configs

\* No write, no claim and no owner entering begin(): the storage invariants
\* are not concerned.
LEMMA StorageFrame ==
  ASSUME DiskInv, OneFate, FileInv,
         UNCHANGED <<file, fdisk, journal, jdisk, cand, owns, rec>>,
         \A q \in Ops : pc'[q] = "begin" => pc[q] = "begin"
  PROVE  DiskInv' /\ OneFate' /\ FileInv'
  BY DEF DiskInv, OneFate, FileInv

\* Reports stay true while the storage stays as it is and nobody reports a
\* commit or a rollback.
LEMMA ReportFrame ==
  ASSUME ReportInv, UNCHANGED <<owns, rec, fdisk, journal, jdisk>>,
         Due(journal) => Due(journal)',
         \A q \in Ops : change'[q] = "Committed" => change[q] = "Committed",
         \A q \in Ops : change'[q] = "RolledBack" /\ owns[q] => change[q] = "RolledBack"
  PROVE  ReportInv'
  BY DEF ReportInv

\* fsync of the state directory: only the visible record remains.
LEMMA JournalSyncStorage ==
  ASSUME DiskInv, OneFate, FileInv, JournalSync,
         UNCHANGED <<file, fdisk, cand, owns, rec>>,
         \A q \in Ops : pc'[q] = "begin" => pc[q] = "begin"
  PROVE  DiskInv' /\ OneFate' /\ FileInv'
  BY DEF DiskInv, OneFate, FileInv, JournalSync

\* Reports stay true when an fsync leaves only the visible record.
LEMMA JournalSyncReport ==
  ASSUME ReportInv, DiskInv, JournalSync, UNCHANGED <<change, owns, rec, fdisk>>,
         Due(journal) => Due(journal)'
  PROVE  ReportInv'
  BY DEF ReportInv, DiskInv, JournalSync

\* fsync of the Netplan directory: only the visible file remains.
LEMMA FileSyncStorage ==
  ASSUME DiskInv, OneFate, FileInv, FileSync,
         UNCHANGED <<journal, jdisk, cand, owns, rec>>,
         \A q \in Ops : pc'[q] = "begin" => pc[q] = "begin"
  PROVE  DiskInv' /\ OneFate' /\ FileInv'
  <1>1. DiskInv'
    BY DEF DiskInv, FileSync
  <1>2. OneFate' /\ FileInv'
    BY DEF DiskInv, OneFate, FileInv, FileSync
  <1> QED BY <1>1, <1>2

\* Reports stay true when an fsync leaves only the visible file.
LEMMA FileSyncReport ==
  ASSUME ReportInv, DiskInv, FileSync, UNCHANGED <<change, owns, rec, journal, jdisk>>,
         Due(journal) => Due(journal)'
  PROVE  ReportInv'
  BY DEF ReportInv, DiskInv, FileSync

\* commit() or restore_pending() resolves the pending record while the file the
\* resolution stands for is the only one that may survive.
LEMMA ResolveStorage ==
  ASSUME TypeOK, DiskInv, RecInv, OneFate, FileInv, ReportInv, Unresolved(journal),
         NEW ph \in {"Committed", "Restored"},
         JournalRename(Resolved(journal, ph)),
         UNCHANGED <<file, fdisk, owns, rec, cand, change>>,
         fdisk = {IF ph = "Committed" THEN cand[journal.txn] ELSE journal.prev},
         \A q \in Ops : pc'[q] = "begin" => pc[q] = "begin",
         change[journal.txn] \notin {"Committed", "RolledBack"} \/ ph = "Restored"
  PROVE  DiskInv' /\ OneFate' /\ FileInv' /\ ReportInv'
  <1> DEFINE new == Resolved(journal, ph)
  <1>1. /\ journal \in jdisk /\ journal.txn \in Ops /\ owns[journal.txn]
        /\ journal = rec[journal.txn] /\ pc[journal.txn] # "begin"
    BY DEF DiskInv, Unresolved
  <1>2. new.phase = ph /\ new.txn = journal.txn /\ new # journal
    BY DEF Resolved, TypeOK, Records, Unresolved
  <1>3. journal' = new /\ jdisk' = jdisk \cup {new}
    BY DEF JournalRename
  <1>4. \A r \in jdisk : r.txn = journal.txn => r = journal
    BY <1>1 DEF OneFate, Unresolved
  <1>5. new = Resolved(rec[new.txn], new.phase) /\ new.phase # "Pending" /\ new.phase # "None"
    BY <1>1, <1>2
  <1>6. DiskInv'
    <2>1. \A r \in jdisk' :
            \/ r.phase = "None" /\ r.txn = NoTxn
            \/ /\ r.phase # "None" /\ r.txn \in Ops /\ owns[r.txn] /\ pc[r.txn] # "begin"
               /\ r = IF r.phase = "Pending" THEN rec[r.txn] ELSE Resolved(rec[r.txn], r.phase)
      BY <1>1, <1>2, <1>3, <1>5 DEF DiskInv
    <2> HIDE DEF new
    <2> QED BY <2>1, <1>3 DEF DiskInv
  <1> HIDE DEF new
  <1>7. OneFate'
    BY <1>1, <1>2, <1>3, <1>4 DEF OneFate, Unresolved
  <1>8. FileInv'
    <2>1. new.phase = "Committed" => fdisk = {cand[new.txn]}
      BY <1>2
    <2>2. new.phase = "Restored" => fdisk = {rec[new.txn].prev}
      BY <1>1, <1>2
    <2> QED BY <2>1, <2>2, <1>2, <1>3 DEF FileInv
  <1>9. ReportInv'
    <2>1. ASSUME NEW q \in Ops, NEW r \in jdisk', r.txn = q
          PROVE  /\ change[q] = "Committed" => r.phase = "Committed"
                 /\ change[q] = "RolledBack" /\ owns[q] =>
                      /\ r.phase # "Committed"
                      /\ fdisk = {rec[q].prev}
      <3>1. CASE r \in jdisk
        BY <2>1, <3>1 DEF ReportInv
      <3>2. CASE r = new
        BY <2>1, <3>2, <1>1, <1>2 DEF ReportInv, Unresolved
      <3> QED BY <3>1, <3>2, <1>3
    <2>2. journal'.phase # "Pending"
      BY <1>2, <1>3
    <2> QED BY <2>1, <2>2 DEF ReportInv
  <1> QED BY <1>6, <1>7, <1>8, <1>9

\* What one owner does before any record of it exists leaves the storage
\* invariants alone.
LEMMA UnrecordedFrame ==
  ASSUME DiskInv, OneFate, FileInv, ReportInv, NEW o \in Ops,
         \A r \in jdisk : r.txn # o,
         \A q \in Ops \ {o} : /\ cand'[q] = cand[q] /\ rec'[q] = rec[q]
                              /\ owns'[q] = owns[q] /\ change'[q] = change[q]
                              /\ pc'[q] = pc[q],
         UNCHANGED <<file, fdisk, journal, jdisk, boot, now>>
  PROVE  DiskInv' /\ OneFate' /\ FileInv' /\ ReportInv'
  <1>1. DiskInv'
    <2>1. ASSUME NEW r \in jdisk, r.txn \in Ops
          PROVE  /\ rec'[r.txn] = rec[r.txn] /\ owns'[r.txn] = owns[r.txn]
                 /\ pc'[r.txn] = pc[r.txn]
      BY <2>1
    <2> QED BY <2>1 DEF DiskInv
  <1>2. OneFate'
    BY DEF OneFate
  <1>3. FileInv'
    BY DEF FileInv, DiskInv
  <1>4. ReportInv'
    BY DEF ReportInv, Due
  <1> QED BY <1>1, <1>2, <1>3, <1>4

\* WifiChange::start: the owner gets a candidate and a deadline.
LEMMA StartInv ==
  ASSUME TypeOK, IInv, NEW o \in Ops, NEW net \in Nets, Start(o, net)
  PROVE  TypeOK' /\ IInv'
  <1> USE JournalAssumption DEF ownerVars, fileVars, jourVars, clockVars, netVars, Goto,
        Procs, Locked, LockedCalls, RestoreSteps, TypeOK, IInv
  <1>c. Draft(net, Absent) \in Configs
    BY DraftType DEF Files
  <1>a. \A r \in jdisk : r.txn # o
    BY DEF Start, DiskInv, RecInv
  <1>b. DiskInv' /\ OneFate' /\ FileInv' /\ ReportInv'
    BY <1>a, UnrecordedFrame DEF Start
  <1>1. TypeOK'
    BY <1>c, LifetimeAssumption DEF Start, Steps, Calls, ChangeStates, Files
  <1>2. LockInv' /\ RecInv' /\ DoneInv'
    BY DEF Start, LockInv, RecInv, DoneInv
  <1>3. DiskInv' /\ OneFate' /\ FileInv'
    BY <1>b
  <1>4. OwnerInv'
    BY DEF Start, OwnerInv, Holds, Due
  <1>5. RestoreInv'
    BY DEF Start, RestoreInv, Due
  <1>6. ReportInv'
    BY <1>b
  <1>7. ServiceFollowsFile'
    BY DEF Start, ServiceFollowsFile
  <1> QED BY <1>1, <1>2, <1>3, <1>4, <1>5, <1>6, <1>7

\* prepare() claims the transaction and copies the visible file into the
\* record.
LEMMA PrepareOpenInv ==
  ASSUME TypeOK, IInv, NEW o \in Ops, PrepareOpen(o)
  PROVE  TypeOK' /\ IInv'
  <1> USE JournalAssumption DEF ownerVars, fileVars, jourVars, clockVars, netVars, Goto,
        Procs, Locked, LockedCalls, RestoreSteps, TypeOK, IInv
  <1>c. Draft(cand[o].net, file) \in Configs
    BY DraftType DEF PrepareOpen, Configs
  <1>a. \A r \in jdisk : r.txn # o
    BY DEF PrepareOpen, DiskInv, RecInv
  <1>b. DiskInv' /\ OneFate' /\ FileInv' /\ ReportInv'
    BY <1>a, UnrecordedFrame DEF PrepareOpen
  <1>1. TypeOK'
    BY <1>c, LifetimeAssumption DEF PrepareOpen, Acquire, Steps, Calls, Files,
       Records, Phases
  <1>2. LockInv' /\ RecInv' /\ DoneInv'
    BY DEF PrepareOpen, Acquire, LockInv, RecInv, DoneInv
  <1>3. DiskInv' /\ OneFate' /\ FileInv'
    BY <1>b
  <1>4. OwnerInv'
    BY DEF PrepareOpen, OwnerInv, Holds, Due
  <1>5. RestoreInv'
    BY DEF PrepareOpen, Acquire, RestoreInv, LockInv
  <1>6. ReportInv'
    BY <1>b
  <1>7. ServiceFollowsFile'
    BY DEF PrepareOpen, ServiceFollowsFile
  <1> QED BY <1>1, <1>2, <1>3, <1>4, <1>5, <1>6, <1>7

\* begin(): the pending record becomes visible, next to the resolved one.
LEMMA BeginSaveInv ==
  ASSUME TypeOK, IInv, NEW o \in Ops, BeginSave(o)
  PROVE  TypeOK' /\ IInv'
  <1> USE JournalAssumption DEF ownerVars, fileVars, jourVars, clockVars, netVars, Goto,
        Procs, Locked, LockedCalls, RestoreSteps, TypeOK, IInv
  <1>a. \A r \in jdisk : r.txn # o
    BY DEF BeginSave, DiskInv
  <1>b. /\ owns[o] /\ rec[o].phase = "Pending" /\ rec[o].txn = o
        /\ rec[o].prev = file /\ change[o] \notin {"Committed", "RolledBack"}
    BY DEF BeginSave, RecInv, OwnerInv, DoneInv
  <1>c. fdisk = {file}
    BY DEF BeginSave, Unresolved, FileInv, DiskInv, Records, Phases
  <1>d. /\ journal' = rec[o] /\ jdisk' = jdisk \cup {rec[o]}
        /\ pc' = [pc EXCEPT ![o] = "beginSync"]
        /\ UNCHANGED <<owns, rec, cand, change, fdisk, file>>
    BY DEF BeginSave, JournalRename
  <1>1. TypeOK'
    BY DEF BeginSave, JournalRename, Steps, Calls
  <1>2. LockInv' /\ RecInv' /\ DoneInv'
    BY DEF BeginSave, LockInv, RecInv, DoneInv
  <1>3. DiskInv' /\ OneFate' /\ FileInv'
    <2>1. DiskInv'
      BY <1>a, <1>b, <1>d DEF DiskInv
    <2>2. OneFate'
      BY <1>a, <1>b, <1>d DEF OneFate
    <2>3. FileInv'
      BY <1>a, <1>b, <1>c, <1>d DEF FileInv
    <2> QED BY <2>1, <2>2, <2>3
  <1>4. OwnerInv'
    BY DEF BeginSave, JournalRename, OwnerInv, RecInv, Holds, LockInv
  <1>5. RestoreInv'
    BY DEF BeginSave, RestoreInv, LockInv
  <1>6. ReportInv'
    BY <1>a, <1>b, <1>d DEF ReportInv
  <1>7. ServiceFollowsFile'
    BY DEF BeginSave, Unresolved, ServiceFollowsFile
  <1> QED BY <1>1, <1>2, <1>3, <1>4, <1>5, <1>6, <1>7

\* The pending record is the only one that may survive when prepare() returns.
LEMMA BeginSyncInv ==
  ASSUME TypeOK, IInv, NEW o \in Ops, BeginSync(o)
  PROVE  TypeOK' /\ IInv'
  <1> USE JournalAssumption DEF ownerVars, fileVars, jourVars, clockVars, netVars, Goto,
        Procs, Locked, LockedCalls, RestoreSteps, TypeOK, IInv
  <1>1. TypeOK'
    BY DEF BeginSync, JournalSync, Release, Steps, Calls
  <1>2. LockInv' /\ RecInv' /\ DoneInv'
    BY DEF BeginSync, LockInv, RecInv, DoneInv
  <1>3. DiskInv' /\ OneFate' /\ FileInv'
    BY JournalSyncStorage DEF BeginSync
  <1>4. OwnerInv'
    BY DEF BeginSync, JournalSync, OwnerInv, Holds, Due
  <1>5. RestoreInv'
    BY DEF BeginSync, RestoreInv, LockInv
  <1>6. ReportInv'
    BY JournalSyncReport DEF BeginSync, JournalSync, Due
  <1>7. ServiceFollowsFile'
    BY DEF BeginSync, JournalSync, ServiceFollowsFile
  <1> QED BY <1>1, <1>2, <1>3, <1>4, <1>5, <1>6, <1>7

\* activate() goes on only with its own, durable, pending record.
LEMMA ActivateOpenInv ==
  ASSUME TypeOK, IInv, NEW o \in Ops, ActivateOpen(o)
  PROVE  TypeOK' /\ IInv'
  <1> USE JournalAssumption DEF ownerVars, fileVars, jourVars, clockVars, netVars, Goto,
        Procs, Locked, LockedCalls, RestoreSteps, TypeOK, IInv
  <1>1. TypeOK'
    BY DEF ActivateOpen, Acquire, Steps, Calls
  <1>2. LockInv' /\ RecInv' /\ DoneInv'
    BY DEF ActivateOpen, Acquire, LockInv, RecInv, DoneInv
  <1>3. DiskInv' /\ OneFate' /\ FileInv'
    BY StorageFrame DEF ActivateOpen
  <1>4. OwnerInv'
    BY DEF ActivateOpen, Current, OwnerInv, Holds
  <1>5. RestoreInv'
    BY DEF ActivateOpen, Acquire, RestoreInv, LockInv
  <1>6. ReportInv'
    BY ReportFrame DEF ActivateOpen, Due
  <1>7. ServiceFollowsFile'
    BY DEF ActivateOpen, ServiceFollowsFile
  <1> QED BY <1>1, <1>2, <1>3, <1>4, <1>5, <1>6, <1>7

\* The candidate is written only while every surviving record holds the backup.
LEMMA ReplaceInv ==
  ASSUME TypeOK, IInv, NEW o \in Ops, Replace(o)
  PROVE  TypeOK' /\ IInv'
  <1> USE JournalAssumption DEF ownerVars, fileVars, jourVars, clockVars, netVars, Goto,
        Procs, Locked, LockedCalls, RestoreSteps, TypeOK, IInv
  <1>a. /\ journal.phase = "Pending" /\ journal.txn = o /\ jdisk = {journal}
        /\ change[o] \notin {"Committed", "RolledBack"}
    BY DEF Replace, OwnerInv, Holds, DoneInv
  <1>b. /\ fdisk' = fdisk \cup {cand[o]} /\ file' = cand[o]
        /\ UNCHANGED <<journal, jdisk, rec, cand, owns, change>>
    BY DEF Replace, FileRename
  <1>1. TypeOK'
    BY DEF Replace, FileRename, Steps, Calls
  <1>2. LockInv' /\ RecInv' /\ DoneInv'
    BY DEF Replace, LockInv, RecInv, DoneInv
  <1>3. DiskInv' /\ OneFate' /\ FileInv'
    <2>1. DiskInv'
      BY <1>b DEF Replace, DiskInv
    <2>2. OneFate'
      BY <1>b DEF OneFate
    <2>3. FileInv'
      BY <1>a, <1>b DEF FileInv
    <2> QED BY <2>1, <2>2, <2>3
  <1>4. OwnerInv'
    BY DEF Replace, FileRename, OwnerInv, Holds, LockInv
  <1>5. RestoreInv'
    BY DEF Replace, RestoreInv, LockInv
  <1>6. ReportInv'
    BY <1>a, <1>b DEF ReportInv
  <1>7. ServiceFollowsFile'
    BY DEF Replace, ServiceFollowsFile, OwnerInv, Holds
  <1> QED BY <1>1, <1>2, <1>3, <1>4, <1>5, <1>6, <1>7

\* The candidate is the only file that may survive.
LEMMA ReplaceSyncInv ==
  ASSUME TypeOK, IInv, NEW o \in Ops, ReplaceSync(o)
  PROVE  TypeOK' /\ IInv'
  <1> USE JournalAssumption DEF ownerVars, fileVars, jourVars, clockVars, netVars, Goto,
        Procs, Locked, LockedCalls, RestoreSteps, TypeOK, IInv
  <1>1. TypeOK'
    BY DEF ReplaceSync, FileSync, Steps, Calls
  <1>2. LockInv' /\ RecInv' /\ DoneInv'
    BY DEF ReplaceSync, LockInv, RecInv, DoneInv
  <1>3. DiskInv' /\ OneFate' /\ FileInv'
    BY FileSyncStorage DEF ReplaceSync
  <1>4. OwnerInv'
    BY DEF ReplaceSync, FileSync, OwnerInv, Holds
  <1>5. RestoreInv'
    BY DEF ReplaceSync, RestoreInv, LockInv
  <1>6. ReportInv'
    BY FileSyncReport DEF ReplaceSync, Due
  <1>7. ServiceFollowsFile'
    BY DEF ReplaceSync, FileSync, ServiceFollowsFile
  <1> QED BY <1>1, <1>2, <1>3, <1>4, <1>5, <1>6, <1>7

\* apply_target(): the service runs with the candidate.
LEMMA ApplyInv ==
  ASSUME TypeOK, IInv, NEW o \in Ops, Apply(o)
  PROVE  TypeOK' /\ IInv'
  <1> USE JournalAssumption DEF ownerVars, fileVars, jourVars, clockVars, netVars, Goto,
        Procs, Locked, LockedCalls, RestoreSteps, TypeOK, IInv
  <1>1. TypeOK'
    BY DEF Apply, Release, Steps
  <1>2. LockInv' /\ RecInv' /\ DoneInv'
    BY DEF Apply, LockInv, RecInv, DoneInv
  <1>3. DiskInv' /\ OneFate' /\ FileInv'
    BY StorageFrame DEF Apply
  <1>4. OwnerInv'
    BY DEF Apply, OwnerInv, Holds
  <1>5. RestoreInv'
    BY DEF Apply, RestoreInv, LockInv
  <1>6. ReportInv'
    BY ReportFrame DEF Apply, Due
  <1>7. ServiceFollowsFile'
    BY DEF Apply, ServiceFollowsFile
  <1> QED BY <1>1, <1>2, <1>3, <1>4, <1>5, <1>6, <1>7

\* tick() changes nothing but the state it reports.
LEMMA TickInv ==
  ASSUME TypeOK, IInv, NEW o \in Ops, NEW ready \in BOOLEAN, Tick(o, ready)
  PROVE  TypeOK' /\ IInv'
  <1> USE JournalAssumption DEF ownerVars, fileVars, jourVars, clockVars, netVars, Goto,
        Procs, Locked, LockedCalls, RestoreSteps, TypeOK, IInv
  <1>1. TypeOK'
    BY DEF Tick, ChangeStates
  <1>2. LockInv' /\ RecInv' /\ DoneInv'
    BY DEF Tick, LockInv, RecInv, DoneInv
  <1>3. DiskInv' /\ OneFate' /\ FileInv'
    BY StorageFrame DEF Tick
  <1>4. OwnerInv'
    BY DEF Tick, OwnerInv, Holds, Due
  <1>5. RestoreInv'
    BY DEF Tick, RestoreInv, Due
  <1>6. ReportInv'
    BY ReportFrame DEF Tick, Due
  <1>7. ServiceFollowsFile'
    BY DEF Tick, ServiceFollowsFile
  <1> QED BY <1>1, <1>2, <1>3, <1>4, <1>5, <1>6, <1>7

\* confirm() enters commit() from the watched state.
LEMMA ConfirmInv ==
  ASSUME TypeOK, IInv, NEW o \in Ops, Confirm(o)
  PROVE  TypeOK' /\ IInv'
  <1> USE JournalAssumption DEF ownerVars, fileVars, jourVars, clockVars, netVars, Goto,
        Procs, Locked, LockedCalls, RestoreSteps, TypeOK, IInv
  <1>1. TypeOK'
    BY DEF Confirm, Steps, Calls, ChangeStates
  <1>2. LockInv' /\ RecInv' /\ DoneInv'
    BY DEF Confirm, LockInv, RecInv, DoneInv
  <1>3. DiskInv' /\ OneFate' /\ FileInv'
    BY StorageFrame DEF Confirm
  <1>4. OwnerInv'
    BY DEF Confirm, OwnerInv, Holds, Due
  <1>5. RestoreInv'
    BY DEF Confirm, RestoreInv, Due
  <1>6. ReportInv'
    BY ReportFrame DEF Confirm, Due
  <1>7. ServiceFollowsFile'
    BY DEF Confirm, ServiceFollowsFile
  <1> QED BY <1>1, <1>2, <1>3, <1>4, <1>5, <1>6, <1>7

\* tick(), cancel() and the destructor enter revert() from the watched state.
LEMMA RevertInv ==
  ASSUME TypeOK, IInv, NEW o \in Ops, Revert(o)
  PROVE  TypeOK' /\ IInv'
  <1> USE JournalAssumption DEF ownerVars, fileVars, jourVars, clockVars, netVars, Goto,
        Procs, Locked, LockedCalls, RestoreSteps, TypeOK, IInv
  <1>1. TypeOK'
    BY DEF Revert, Steps
  <1>2. LockInv' /\ RecInv' /\ DoneInv'
    BY DEF Revert, LockInv, RecInv, DoneInv
  <1>3. DiskInv' /\ OneFate' /\ FileInv'
    BY StorageFrame DEF Revert
  <1>4. OwnerInv'
    BY DEF Revert, OwnerInv, Holds, Due
  <1>5. RestoreInv'
    BY DEF Revert, RestoreInv, Due
  <1>6. ReportInv'
    BY ReportFrame DEF Revert, Due
  <1>7. ServiceFollowsFile'
    BY DEF Revert, ServiceFollowsFile
  <1> QED BY <1>1, <1>2, <1>3, <1>4, <1>5, <1>6, <1>7

\* commit() goes on only with the candidate in place and the record current.
LEMMA CommitOpenInv ==
  ASSUME TypeOK, IInv, NEW o \in Ops, CommitOpen(o)
  PROVE  TypeOK' /\ IInv'
  <1> USE JournalAssumption DEF ownerVars, fileVars, jourVars, clockVars, netVars, Goto,
        Procs, Locked, LockedCalls, RestoreSteps, TypeOK, IInv
  <1>1. TypeOK'
    BY DEF CommitOpen, Acquire, Steps, Calls
  <1>2. LockInv' /\ RecInv' /\ DoneInv'
    BY DEF CommitOpen, Acquire, LockInv, RecInv, DoneInv
  <1>3. DiskInv' /\ OneFate' /\ FileInv'
    BY StorageFrame DEF CommitOpen
  <1>4. OwnerInv'
    BY DEF CommitOpen, Current, OwnerInv, Records, Holds, Due
  <1>5. RestoreInv'
    BY DEF CommitOpen, Acquire, RestoreInv, LockInv
  <1>6. ReportInv'
    BY ReportFrame DEF CommitOpen, Due
  <1>7. ServiceFollowsFile'
    BY DEF CommitOpen, ServiceFollowsFile
  <1> QED BY <1>1, <1>2, <1>3, <1>4, <1>5, <1>6, <1>7

\* Resolving a record leaves a record.
LEMMA ResolvedIsRecord ==
  ASSUME NEW r \in Records, NEW ph \in Phases
  PROVE  Resolved(r, ph) \in Records
  BY DEF Resolved, Records

\* The commit becomes visible: the pending record may still come back, with the
\* candidate as the only file.
LEMMA CommitSaveInv ==
  ASSUME TypeOK, IInv, NEW o \in Ops, CommitSave(o)
  PROVE  TypeOK' /\ IInv'
  <1> USE JournalAssumption DEF ownerVars, fileVars, jourVars, clockVars, netVars, Goto,
        Procs, Locked, LockedCalls, RestoreSteps, TypeOK, IInv
  <1>a. /\ Unresolved(journal) /\ journal.txn = o /\ fdisk = {cand[o]}
        /\ change[o] \notin {"Committed", "RolledBack"}
    BY DEF CommitSave, OwnerInv, Holds, Unresolved, DoneInv
  <1>b. DiskInv' /\ OneFate' /\ FileInv' /\ ReportInv'
    BY <1>a, ResolveStorage DEF CommitSave
  <1>1. TypeOK'
    <2>1. journal' \in Records /\ jdisk' \in SUBSET Records
      <3>1. journal \in Records /\ jdisk \in SUBSET Records
        OBVIOUS
      <3>2. journal' = Resolved(journal, "Committed") /\ jdisk' = jdisk \cup {journal'}
        BY DEF CommitSave, JournalRename
      <3> QED BY ONLY <3>1, <3>2, ResolvedIsRecord DEF Phases
    <2> HIDE DEF IInv
    <2> QED BY <2>1 DEF CommitSave, Steps, Calls
  <1>2. LockInv' /\ RecInv' /\ DoneInv'
    BY DEF CommitSave, LockInv, RecInv, DoneInv
  <1>3. DiskInv' /\ OneFate' /\ FileInv'
    BY <1>b
  <1>4. OwnerInv'
    BY NetplanAssumption DEF CommitSave, JournalRename, Resolved, OwnerInv,
       Holds, Due, OneFate, Unresolved, Current
  <1>5. RestoreInv'
    BY NetplanAssumption DEF CommitSave, RestoreInv, LockInv
  <1>6. ReportInv'
    BY <1>b
  <1>7. ServiceFollowsFile'
    BY DEF CommitSave, ServiceFollowsFile, OwnerInv
  <1> QED BY <1>1, <1>2, <1>3, <1>4, <1>5, <1>6, <1>7

\* The commit is reported when its record is the only one that may survive.
LEMMA CommitSyncInv ==
  ASSUME TypeOK, IInv, NEW o \in Ops, CommitSync(o)
  PROVE  TypeOK' /\ IInv'
  <1> USE JournalAssumption DEF ownerVars, fileVars, jourVars, clockVars, netVars, Goto,
        Procs, Locked, LockedCalls, RestoreSteps, TypeOK, IInv
  <1>1. TypeOK'
    BY DEF CommitSync, JournalSync, Release, Steps, ChangeStates
  <1>2. LockInv' /\ RecInv' /\ DoneInv'
    BY DEF CommitSync, LockInv, RecInv, DoneInv
  <1>3. DiskInv' /\ OneFate' /\ FileInv'
    BY JournalSyncStorage DEF CommitSync
  <1>4. OwnerInv'
    BY DEF CommitSync, JournalSync, OwnerInv, Holds
  <1>5. RestoreInv'
    BY DEF CommitSync, RestoreInv, LockInv
  <1>6. ReportInv'
    BY DEF CommitSync, JournalSync, OwnerInv, ReportInv
  <1>7. ServiceFollowsFile'
    BY DEF CommitSync, JournalSync, ServiceFollowsFile
  <1> QED BY <1>1, <1>2, <1>3, <1>4, <1>5, <1>6, <1>7

\* A failing call releases the lock and leaves the disk as it is.
LEMMA CallFailsInv ==
  ASSUME TypeOK, IInv, NEW o \in Ops, CallFails(o)
  PROVE  TypeOK' /\ IInv'
  <1> USE JournalAssumption DEF ownerVars, fileVars, jourVars, clockVars, netVars, Goto,
        Procs, Locked, LockedCalls, RestoreSteps, TypeOK, IInv
  <1>1. TypeOK'
    BY DEF CallFails, Calls, Release, Steps
  <1>2. LockInv' /\ RecInv' /\ DoneInv'
    BY DEF CallFails, Calls, Release, LockInv, RecInv, DoneInv
  <1>3. DiskInv' /\ OneFate' /\ FileInv'
    BY StorageFrame DEF CallFails
  <1>4. OwnerInv'
    BY DEF CallFails, OwnerInv, Holds, Due
  <1>5. RestoreInv'
    BY DEF CallFails, RestoreInv, Due
  <1>6. ReportInv'
    BY ReportFrame DEF CallFails, Due
  <1>7. ServiceFollowsFile'
    BY DEF CallFails, ServiceFollowsFile
  <1> QED BY <1>1, <1>2, <1>3, <1>4, <1>5, <1>6, <1>7

\* A failing systemctl leaves a pending record behind.
LEMMA ApplyFailsInv ==
  ASSUME TypeOK, IInv, NEW o \in Ops, ApplyFails(o)
  PROVE  TypeOK' /\ IInv'
  <1> USE JournalAssumption DEF ownerVars, fileVars, jourVars, clockVars, netVars, Goto,
        Procs, Locked, LockedCalls, RestoreSteps, TypeOK, IInv
  <1>1. TypeOK'
    BY DEF ApplyFails, Release, Steps, Calls, ChangeStates
  <1>2. LockInv' /\ RecInv' /\ DoneInv'
    BY DEF ApplyFails, LockInv, RecInv, DoneInv
  <1>3. DiskInv' /\ OneFate' /\ FileInv'
    BY StorageFrame DEF ApplyFails
  <1>4. OwnerInv'
    BY DEF ApplyFails, OwnerInv, Holds
  <1>5. RestoreInv'
    BY DEF ApplyFails, RestoreInv, LockInv
  <1>6. ReportInv'
    BY ReportFrame DEF ApplyFails, Due
  <1>7. ServiceFollowsFile'
    BY DEF ApplyFails, ServiceFollowsFile, OwnerInv, Holds
  <1> QED BY <1>1, <1>2, <1>3, <1>4, <1>5, <1>6, <1>7

\* A change that never claimed a transaction reports a rollback.
LEMMA RollbackNothingInv ==
  ASSUME TypeOK, IInv, NEW o \in Ops, RollbackNothing(o)
  PROVE  TypeOK' /\ IInv'
  <1> USE JournalAssumption DEF ownerVars, fileVars, jourVars, clockVars, netVars, Goto,
        Procs, Locked, LockedCalls, RestoreSteps, TypeOK, IInv
  <1>1. TypeOK'
    BY DEF RollbackNothing, Report, Steps, ChangeStates
  <1>2. LockInv' /\ RecInv' /\ DoneInv'
    BY DEF RollbackNothing, Report, LockInv, RecInv, DoneInv
  <1>3. DiskInv' /\ OneFate' /\ FileInv'
    BY StorageFrame DEF RollbackNothing, Report
  <1>4. OwnerInv'
    BY DEF RollbackNothing, Report, OwnerInv, Holds, Due
  <1>5. RestoreInv'
    BY DEF RollbackNothing, Report, RestoreInv, Due
  <1>6. ReportInv'
    BY ReportFrame DEF RollbackNothing, Report, Due
  <1>7. ServiceFollowsFile'
    BY DEF RollbackNothing, Report, ServiceFollowsFile
  <1> QED BY <1>1, <1>2, <1>3, <1>4, <1>5, <1>6, <1>7

\* cancel() starts a restoration only of the caller's own pending record.
LEMMA RollbackOpenInv ==
  ASSUME TypeOK, IInv, NEW o \in Ops, RollbackOpen(o)
  PROVE  TypeOK' /\ IInv'
  <1> USE JournalAssumption DEF ownerVars, fileVars, jourVars, clockVars, netVars, Goto,
        Procs, Locked, LockedCalls, RestoreSteps, TypeOK, IInv
  <1>1. TypeOK'
    BY DEF RollbackOpen, Acquire, Cancellable, Steps
  <1>2. LockInv' /\ RecInv' /\ DoneInv'
    BY DEF RollbackOpen, Acquire, Cancellable, LockInv, RecInv, DoneInv
  <1>3. DiskInv' /\ OneFate' /\ FileInv'
    BY StorageFrame DEF RollbackOpen, Cancellable
  <1>4. OwnerInv'
    BY DEF RollbackOpen, Cancellable, OwnerInv, Holds
  <1>5. RestoreInv'
    BY DEF RollbackOpen, Acquire, Cancellable, RestoreInv, LockInv
  <1>6. ReportInv'
    BY ReportFrame DEF RollbackOpen, Cancellable, Due
  <1>7. ServiceFollowsFile'
    BY DEF RollbackOpen, Cancellable, ServiceFollowsFile
  <1> QED BY <1>1, <1>2, <1>3, <1>4, <1>5, <1>6, <1>7

\* A rollback reported from a Restored record: the old file is the only one.
LEMMA RollbackAlreadyInv ==
  ASSUME TypeOK, IInv, NEW o \in Ops, RollbackAlready(o)
  PROVE  TypeOK' /\ IInv'
  <1> USE JournalAssumption DEF ownerVars, fileVars, jourVars, clockVars, netVars, Goto,
        Procs, Locked, LockedCalls, RestoreSteps, TypeOK, IInv
  <1>1. TypeOK'
    BY DEF RollbackAlready, Report, Cancellable, Steps, ChangeStates
  <1>2. LockInv' /\ RecInv' /\ DoneInv'
    BY DEF RollbackAlready, Report, Cancellable, LockInv, RecInv, DoneInv
  <1>3. DiskInv' /\ OneFate' /\ FileInv'
    BY StorageFrame DEF RollbackAlready, Report, Cancellable
  <1>4. OwnerInv'
    BY DEF RollbackAlready, Report, Cancellable, OwnerInv, Holds
  <1>5. RestoreInv'
    BY DEF RollbackAlready, Report, Cancellable, RestoreInv
  <1>6. ReportInv'
    <2>1. /\ journal \in jdisk /\ journal.txn = o /\ journal.phase = "Restored"
          /\ fdisk = {rec[o].prev}
      BY DEF RollbackAlready, Cancellable, DiskInv, FileInv
    <2>2. \A r \in jdisk : r.txn = o => r.phase # "Committed"
      BY <2>1 DEF OneFate
    <2>3. /\ change' = [change EXCEPT ![o] = "RolledBack"]
          /\ UNCHANGED <<owns, rec, fdisk, journal, jdisk, boot, now>>
      BY DEF RollbackAlready, Report
    <2> QED BY <2>1, <2>2, <2>3 DEF ReportInv
  <1>7. ServiceFollowsFile'
    BY DEF RollbackAlready, Report, Cancellable, ServiceFollowsFile
  <1> QED BY <1>1, <1>2, <1>3, <1>4, <1>5, <1>6, <1>7

\* RecoveryRequired promises nothing.
LEMMA RollbackFailsInv ==
  ASSUME TypeOK, IInv, NEW o \in Ops, RollbackFails(o)
  PROVE  TypeOK' /\ IInv'
  <1> USE JournalAssumption DEF ownerVars, fileVars, jourVars, clockVars, netVars, Goto,
        Procs, Locked, LockedCalls, RestoreSteps, TypeOK, IInv
  <1>1. TypeOK'
    BY DEF RollbackFails, Report, Steps, ChangeStates
  <1>2. LockInv' /\ RecInv' /\ DoneInv'
    BY DEF RollbackFails, Report, LockInv, RecInv, DoneInv
  <1>3. DiskInv' /\ OneFate' /\ FileInv'
    BY StorageFrame DEF RollbackFails, Report
  <1>4. OwnerInv'
    BY DEF RollbackFails, Report, OwnerInv, Holds, Due
  <1>5. RestoreInv'
    BY DEF RollbackFails, Report, RestoreInv, Due
  <1>6. ReportInv'
    BY ReportFrame DEF RollbackFails, Report, Due
  <1>7. ServiceFollowsFile'
    BY DEF RollbackFails, Report, ServiceFollowsFile
  <1> QED BY <1>1, <1>2, <1>3, <1>4, <1>5, <1>6, <1>7

\* The backup is renamed into place while the record is pending.
LEMMA RestoreFileInv ==
  ASSUME TypeOK, IInv, NEW p \in Procs, RestoreFile(p)
  PROVE  TypeOK' /\ IInv'
  <1> USE JournalAssumption DEF ownerVars, fileVars, jourVars, clockVars, netVars, Goto,
        Procs, Locked, LockedCalls, RestoreSteps, TypeOK, IInv
  <1>a. /\ journal \in jdisk /\ journal.phase = "Pending" /\ journal.txn \in Ops
        /\ journal = rec[journal.txn]
    BY DEF RestoreFile, RestoreInv, DiskInv
  <1>b. /\ fdisk' = fdisk \cup {journal.prev} /\ file' = journal.prev
        /\ UNCHANGED <<journal, jdisk, rec, cand, owns, change, boot, now>>
    BY DEF RestoreFile, FileRename
  <1>c. jdisk = {journal} \/ (fdisk' = fdisk /\ fdisk = {journal.prev})
    BY <1>a, <1>b DEF FileInv
  <1>1. TypeOK'
    BY DEF RestoreFile, FileRename, Steps, RestoreInv, DiskInv, RecInv
  <1>2. LockInv' /\ RecInv' /\ DoneInv'
    BY DEF RestoreFile, LockInv, RecInv, DoneInv
  <1>3. DiskInv' /\ OneFate' /\ FileInv'
    <2>1. DiskInv'
      BY <1>b DEF RestoreFile, DiskInv
    <2>2. CASE jdisk = {journal}
      BY <2>1, <2>2, <1>a, <1>b DEF OneFate, FileInv
    <2>3. CASE fdisk' = fdisk /\ fdisk = {journal.prev}
      <3>1. file = journal.prev
        BY <2>3 DEF DiskInv
      <3> QED BY <2>3, <3>1, <1>b, StorageFrame DEF RestoreFile
    <2> QED BY <2>2, <2>3, <1>c
  <1>4. OwnerInv'
    BY DEF RestoreFile, OwnerInv, RestoreInv, Holds, Due, LockInv
  <1>5. RestoreInv'
    BY DEF RestoreFile, FileRename, RestoreInv, Due, LockInv
  <1>6. ReportInv'
    <2>1. CASE jdisk = {journal}
      BY <2>1, <1>a, <1>b DEF ReportInv, Due
    <2>2. CASE fdisk' = fdisk
      BY <2>2, <1>b, ReportFrame DEF Due
    <2> QED BY <2>1, <2>2, <1>c
  <1>7. ServiceFollowsFile'
    BY <1>a, <1>b DEF ServiceFollowsFile
  <1> QED BY <1>1, <1>2, <1>3, <1>4, <1>5, <1>6, <1>7

\* The backup is the only file that may survive.
LEMMA RestoreFileSyncInv ==
  ASSUME TypeOK, IInv, NEW p \in Procs, RestoreFileSync(p)
  PROVE  TypeOK' /\ IInv'
  <1> USE JournalAssumption DEF ownerVars, fileVars, jourVars, clockVars, netVars, Goto,
        Procs, Locked, LockedCalls, RestoreSteps, TypeOK, IInv
  <1>1. TypeOK'
    BY DEF RestoreFileSync, FileSync, Steps
  <1>2. LockInv' /\ RecInv' /\ DoneInv'
    BY DEF RestoreFileSync, LockInv, RecInv, DoneInv
  <1>3. DiskInv' /\ OneFate' /\ FileInv'
    BY FileSyncStorage DEF RestoreFileSync
  <1>4. OwnerInv'
    BY DEF RestoreFileSync, OwnerInv, RestoreInv, Holds, Due, LockInv
  <1>5. RestoreInv'
    BY DEF RestoreFileSync, FileSync, RestoreInv, Due
  <1>6. ReportInv'
    BY FileSyncReport DEF RestoreFileSync, Due
  <1>7. ServiceFollowsFile'
    BY DEF RestoreFileSync, FileSync, ServiceFollowsFile
  <1> QED BY <1>1, <1>2, <1>3, <1>4, <1>5, <1>6, <1>7

\* restore_network(): the service follows the restored file.
LEMMA ReconfigureInv ==
  ASSUME TypeOK, IInv, NEW p \in Procs, Reconfigure(p)
  PROVE  TypeOK' /\ IInv'
  <1> USE JournalAssumption DEF ownerVars, fileVars, jourVars, clockVars, netVars, Goto,
        Procs, Locked, LockedCalls, RestoreSteps, TypeOK, IInv
  <1>1. TypeOK'
    BY DEF Reconfigure, Steps
  <1>2. LockInv' /\ RecInv' /\ DoneInv'
    BY DEF Reconfigure, LockInv, RecInv, DoneInv
  <1>3. DiskInv' /\ OneFate' /\ FileInv'
    BY StorageFrame DEF Reconfigure
  <1>4. OwnerInv'
    BY DEF Reconfigure, OwnerInv, Holds, Due
  <1>5. RestoreInv'
    BY DEF Reconfigure, RestoreInv, Due
  <1>6. ReportInv'
    BY ReportFrame DEF Reconfigure, Due
  <1>7. ServiceFollowsFile'
    BY DEF Reconfigure, ServiceFollowsFile
  <1> QED BY <1>1, <1>2, <1>3, <1>4, <1>5, <1>6, <1>7

\* The record is resolved only with the backup durable and the service
\* following it.
LEMMA RestoredSaveInv ==
  ASSUME TypeOK, IInv, NEW p \in Procs, RestoredSave(p)
  PROVE  TypeOK' /\ IInv'
  <1> USE JournalAssumption DEF ownerVars, fileVars, jourVars, clockVars, netVars, Goto,
        Procs, Locked, LockedCalls, RestoreSteps, TypeOK, IInv
  <1>a. Unresolved(journal) /\ fdisk = {journal.prev}
    BY DEF RestoredSave, RestoreInv, Unresolved
  <1>b. DiskInv' /\ OneFate' /\ FileInv' /\ ReportInv'
    BY <1>a, ResolveStorage DEF RestoredSave
  <1>1. TypeOK'
    <2>1. journal' \in Records /\ jdisk' \in SUBSET Records
      <3>1. journal \in Records /\ jdisk \in SUBSET Records
        OBVIOUS
      <3>2. journal' = Resolved(journal, "Restored") /\ jdisk' = jdisk \cup {journal'}
        BY DEF RestoredSave, JournalRename
      <3> QED BY ONLY <3>1, <3>2, ResolvedIsRecord DEF Phases
    <2> HIDE DEF IInv
    <2> QED BY <2>1 DEF RestoredSave, Steps, Calls
  <1>2. LockInv' /\ RecInv' /\ DoneInv'
    BY DEF RestoredSave, LockInv, RecInv, DoneInv
  <1>3. DiskInv' /\ OneFate' /\ FileInv'
    BY <1>b
  <1>4. OwnerInv'
    BY NetplanAssumption DEF RestoredSave, JournalRename, Resolved, OwnerInv,
       Holds, Due, LockInv, OneFate, Unresolved, Current
  <1>5. RestoreInv'
    BY NetplanAssumption DEF RestoredSave, JournalRename, Resolved, RestoreInv,
       Due, LockInv, Holds
  <1>6. ReportInv'
    BY <1>b
  <1>7. ServiceFollowsFile'
    BY DEF RestoredSave, ServiceFollowsFile, RestoreInv
  <1> QED BY <1>1, <1>2, <1>3, <1>4, <1>5, <1>6, <1>7

\* The restoration is reported when its record is the only one that may
\* survive.
LEMMA RestoredSyncInv ==
  ASSUME TypeOK, IInv, NEW p \in Procs, RestoredSync(p)
  PROVE  TypeOK' /\ IInv'
  <1> USE JournalAssumption DEF ownerVars, fileVars, jourVars, clockVars, netVars, Goto,
        Procs, Locked, LockedCalls, RestoreSteps, TypeOK, IInv
  <1>a. /\ journal \in jdisk /\ journal.phase = "Restored" /\ journal' = journal
        /\ jdisk' = {journal} /\ (p \in Ops => journal.txn = p)
        /\ UNCHANGED <<file, fdisk, owns, rec, cand>>
    BY DEF RestoredSync, RestoreInv, DiskInv, JournalSync, RestoreReturns, Report
  <1>b. fdisk = {rec[journal.txn].prev}
    BY <1>a DEF FileInv
  <1>c. \A q \in Ops : change'[q] = "Committed" => change[q] = "Committed"
    BY DEF RestoredSync, RestoreReturns, Report
  <1>1. TypeOK'
    BY DEF RestoredSync, JournalSync, Release, RestoreReturns, Report, Steps,
       ChangeStates
  <1>2. LockInv' /\ RecInv' /\ DoneInv'
    BY DEF RestoredSync, RestoreReturns, Report, LockInv, RecInv, DoneInv
  <1>3. DiskInv' /\ OneFate' /\ FileInv'
    BY <1>a, JournalSyncStorage DEF RestoredSync, RestoreReturns, Report
  <1>4. OwnerInv'
    BY DEF RestoredSync, JournalSync, RestoreReturns, Report, OwnerInv,
       RestoreInv, Holds
  <1>5. RestoreInv'
    BY DEF RestoredSync, JournalSync, RestoreReturns, Report, RestoreInv
  <1>6. ReportInv'
    <2> SUFFICES ASSUME NEW q \in Ops, journal.txn = q
                 PROVE  /\ change'[q] # "Committed"
                        /\ fdisk' = {rec'[q].prev}
      BY <1>a DEF ReportInv
    <2> QED BY <1>a, <1>b, <1>c DEF ReportInv
  <1>7. ServiceFollowsFile'
    BY DEF RestoredSync, JournalSync, RestoreReturns, Report, ServiceFollowsFile
  <1> QED BY <1>1, <1>2, <1>3, <1>4, <1>5, <1>6, <1>7

\* A failing restoration leaves the record as it is.
LEMMA RestoreFailsInv ==
  ASSUME TypeOK, IInv, NEW p \in Procs, RestoreFails(p)
  PROVE  TypeOK' /\ IInv'
  <1> USE JournalAssumption DEF ownerVars, fileVars, jourVars, clockVars, netVars, Goto,
        Procs, Locked, LockedCalls, RestoreSteps, TypeOK, IInv
  <1>1. TypeOK'
    BY DEF RestoreFails, Release, RestoreReturns, Report, Steps, ChangeStates
  <1>2. LockInv' /\ RecInv' /\ DoneInv'
    BY DEF RestoreFails, RestoreReturns, Report, LockInv, RecInv, DoneInv
  <1>3. DiskInv' /\ OneFate' /\ FileInv'
    BY StorageFrame DEF RestoreFails, RestoreReturns, Report
  <1>4. OwnerInv'
    BY DEF RestoreFails, RestoreReturns, Report, OwnerInv, Holds, Due
  <1>5. RestoreInv'
    BY DEF RestoreFails, RestoreReturns, Report, RestoreInv, LockInv
  <1>6. ReportInv'
    BY ReportFrame DEF RestoreFails, RestoreReturns, Report, Due
  <1>7. ServiceFollowsFile'
    BY DEF RestoreFails, RestoreReturns, Report, ServiceFollowsFile
  <1> QED BY <1>1, <1>2, <1>3, <1>4, <1>5, <1>6, <1>7

\* A failing restore_network() leaves the record pending.
LEMMA ReconfigureFailsInv ==
  ASSUME TypeOK, IInv, NEW p \in Procs, ReconfigureFails(p)
  PROVE  TypeOK' /\ IInv'
  <1> USE JournalAssumption DEF ownerVars, fileVars, jourVars, clockVars, netVars, Goto,
        Procs, Locked, LockedCalls, RestoreSteps, TypeOK, IInv
  <1>1. TypeOK'
    <2>1. live' \in Files /\ job' \in BOOLEAN
      BY DEF ReconfigureFails
    <2>2. lock' \in Procs \cup {Nobody}
      BY DEF ReconfigureFails, Release
    <2>3. /\ pc' \in [Procs -> Steps]
          /\ change' \in [Ops -> ChangeStates]
          /\ \A o \in Ops : pc'[o] # "idle" => pc[o] # "idle"
          /\ UNCHANGED <<owns, cand, rec, timeout>>
      BY DEF ReconfigureFails, RestoreReturns, Report, Steps, ChangeStates
    <2> QED BY <2>1, <2>2, <2>3 DEF ReconfigureFails
  <1>2. LockInv' /\ RecInv' /\ DoneInv'
    BY DEF ReconfigureFails, RestoreReturns, Report, LockInv, RecInv, DoneInv
  <1>3. DiskInv' /\ OneFate' /\ FileInv'
    BY StorageFrame DEF ReconfigureFails, RestoreReturns, Report
  <1>4. OwnerInv'
    BY DEF ReconfigureFails, RestoreReturns, Report, OwnerInv, RestoreInv, Holds,
       Due, LockInv
  <1>5. RestoreInv'
    BY DEF ReconfigureFails, RestoreReturns, Report, RestoreInv, LockInv
  <1>6. ReportInv'
    BY ReportFrame DEF ReconfigureFails, RestoreReturns, Report, Due
  <1>7. ServiceFollowsFile'
    BY DEF ReconfigureFails, RestoreReturns, Report, ServiceFollowsFile, RestoreInv
  <1> QED BY <1>1, <1>2, <1>3, <1>4, <1>5, <1>6, <1>7

\* The supervisor starts a restoration only of a due record.
LEMMA SupervisorTickInv ==
  ASSUME TypeOK, IInv, SupervisorTick
  PROVE  TypeOK' /\ IInv'
  <1> USE JournalAssumption DEF ownerVars, fileVars, jourVars, clockVars, netVars, Goto,
        Procs, Locked, LockedCalls, RestoreSteps, TypeOK, IInv
  <1>1. TypeOK'
    BY DEF SupervisorTick, Acquire, Steps
  <1>2. LockInv' /\ RecInv' /\ DoneInv'
    BY DEF SupervisorTick, Acquire, LockInv, RecInv, DoneInv
  <1>3. DiskInv' /\ OneFate' /\ FileInv'
    BY StorageFrame DEF SupervisorTick
  <1>4. OwnerInv'
    BY DEF SupervisorTick, OwnerInv, Holds, Due
  <1>5. RestoreInv'
    BY DEF SupervisorTick, RestoreInv, Due
  <1>6. ReportInv'
    BY ReportFrame DEF SupervisorTick, Due
  <1>7. ServiceFollowsFile'
    BY DEF SupervisorTick, ServiceFollowsFile
  <1> QED BY <1>1, <1>2, <1>3, <1>4, <1>5, <1>6, <1>7

\* The supervisor dies at any step.
LEMMA SupervisorDiesInv ==
  ASSUME TypeOK, IInv, SupervisorDies
  PROVE  TypeOK' /\ IInv'
  <1> USE JournalAssumption DEF ownerVars, fileVars, jourVars, clockVars, netVars, Goto,
        Procs, Locked, LockedCalls, RestoreSteps, TypeOK, IInv
  <1>1. TypeOK'
    BY DEF SupervisorDies, Release, Steps, ChangeStates
  <1>2. LockInv' /\ RecInv' /\ DoneInv'
    BY DEF SupervisorDies, Release, LockInv, RecInv, DoneInv
  <1>3. DiskInv' /\ OneFate' /\ FileInv'
    BY StorageFrame DEF SupervisorDies
  <1>4. OwnerInv'
    BY DEF SupervisorDies, OwnerInv, Holds, Due
  <1>5. RestoreInv'
    BY DEF SupervisorDies, RestoreInv
  <1>6. ReportInv'
    BY ReportFrame DEF SupervisorDies, Due
  <1>7. ServiceFollowsFile'
    BY DEF SupervisorDies, ServiceFollowsFile
  <1> QED BY <1>1, <1>2, <1>3, <1>4, <1>5, <1>6, <1>7

\* The supervisor is started again.
LEMMA SupervisorStartsInv ==
  ASSUME TypeOK, IInv, SupervisorStarts
  PROVE  TypeOK' /\ IInv'
  <1> USE JournalAssumption DEF ownerVars, fileVars, jourVars, clockVars, netVars, Goto,
        Procs, Locked, LockedCalls, RestoreSteps, TypeOK, IInv
  <1>1. TypeOK'
    BY DEF SupervisorStarts, Steps
  <1>2. LockInv' /\ RecInv' /\ DoneInv'
    BY DEF SupervisorStarts, LockInv, RecInv, DoneInv
  <1>3. DiskInv' /\ OneFate' /\ FileInv'
    BY StorageFrame DEF SupervisorStarts
  <1>4. OwnerInv'
    BY DEF SupervisorStarts, OwnerInv, Holds, Due
  <1>5. RestoreInv'
    BY DEF SupervisorStarts, RestoreInv
  <1>6. ReportInv'
    BY ReportFrame DEF SupervisorStarts, Due
  <1>7. ServiceFollowsFile'
    BY DEF SupervisorStarts, ServiceFollowsFile
  <1> QED BY <1>1, <1>2, <1>3, <1>4, <1>5, <1>6, <1>7

\* An owner is killed at any step.
LEMMA KillInv ==
  ASSUME TypeOK, IInv, NEW o \in Ops, Kill(o)
  PROVE  TypeOK' /\ IInv'
  <1> USE JournalAssumption DEF ownerVars, fileVars, jourVars, clockVars, netVars, Goto,
        Procs, Locked, LockedCalls, RestoreSteps, TypeOK, IInv
  <1>1. TypeOK'
    BY DEF Kill, Release, Steps
  <1>2. LockInv' /\ RecInv' /\ DoneInv'
    BY DEF Kill, Release, LockInv, RecInv, DoneInv
  <1>3. DiskInv' /\ OneFate' /\ FileInv'
    BY StorageFrame DEF Kill
  <1>4. OwnerInv'
    BY DEF Kill, OwnerInv, Holds, Due
  <1>5. RestoreInv'
    BY DEF Kill, RestoreInv, Due
  <1>6. ReportInv'
    BY ReportFrame DEF Kill, Due
  <1>7. ServiceFollowsFile'
    BY DEF Kill, ServiceFollowsFile
  <1> QED BY <1>1, <1>2, <1>3, <1>4, <1>5, <1>6, <1>7

\* A late systemd job makes the service follow the file.
LEMMA JobRunsInv ==
  ASSUME TypeOK, IInv, JobRuns
  PROVE  TypeOK' /\ IInv'
  <1> USE JournalAssumption DEF ownerVars, fileVars, jourVars, clockVars, netVars, Goto,
        Procs, Locked, LockedCalls, RestoreSteps, TypeOK, IInv
  <1>1. TypeOK'
    BY DEF JobRuns
  <1>2. LockInv' /\ RecInv' /\ DoneInv'
    BY DEF JobRuns, LockInv, RecInv, DoneInv
  <1>3. DiskInv' /\ OneFate' /\ FileInv'
    BY StorageFrame DEF JobRuns
  <1>4. OwnerInv'
    BY DEF JobRuns, OwnerInv, Holds, Due
  <1>5. RestoreInv'
    BY DEF JobRuns, RestoreInv, Due
  <1>6. ReportInv'
    BY ReportFrame DEF JobRuns, Due
  <1>7. ServiceFollowsFile'
    BY DEF JobRuns, ServiceFollowsFile
  <1> QED BY <1>1, <1>2, <1>3, <1>4, <1>5, <1>6, <1>7

\* Time passes, awake or suspended: a due record stays due.
LEMMA ClockTickInv ==
  ASSUME TypeOK, IInv, NEW s \in BOOLEAN, ClockTick(s)
  PROVE  TypeOK' /\ IInv'
  <1> USE JournalAssumption DEF ownerVars, fileVars, jourVars, clockVars, netVars, Goto,
        Procs, Locked, LockedCalls, RestoreSteps, TypeOK, IInv
  <1>1. TypeOK'
    BY DEF ClockTick
  <1>2. LockInv' /\ RecInv' /\ DoneInv'
    BY DEF ClockTick, LockInv, RecInv, DoneInv
  <1>3. DiskInv' /\ OneFate' /\ FileInv'
    BY StorageFrame DEF ClockTick
  <1>4. OwnerInv'
    BY DEF ClockTick, OwnerInv, Records, Holds, Due
  <1>5. RestoreInv'
    BY DEF ClockTick, RestoreInv, Records, Due
  <1>6. ReportInv'
    <2>1. Due(journal) => Due(journal)'
      BY DEF ClockTick, Due, Records
    <2> QED BY <2>1, ReportFrame DEF ClockTick
  <1>7. ServiceFollowsFile'
    BY DEF ClockTick, ServiceFollowsFile
  <1> QED BY <1>1, <1>2, <1>3, <1>4, <1>5, <1>6, <1>7

\* Power is lost: whichever record and file survive, they go together.
LEMMA PowerLossInv ==
  ASSUME TypeOK, IInv, PowerLoss
  PROVE  TypeOK' /\ IInv'
  <1> USE JournalAssumption DEF ownerVars, fileVars, jourVars, clockVars, netVars, Goto,
        Procs, Locked, LockedCalls, RestoreSteps, TypeOK, IInv
  <1>a. PICK r \in jdisk, f \in fdisk :
          journal' = r /\ jdisk' = {r} /\ file' = f /\ fdisk' = {f}
    BY DEF PowerLoss, FilePowerLoss, JournalPowerLoss
  <1>b. /\ boot' = boot + 1 /\ now' = 0 /\ steady' = 0 /\ lock' = Nobody
        /\ live' = Absent /\ job' = TRUE
        /\ UNCHANGED <<change, owns, cand, rec, timeout>>
        /\ pc' \in [Procs -> {"idle", "done", "dead", "down"}]
        /\ pc'[Supervisor] = "down"
        /\ \A o \in Ops : /\ pc'[o] \in {"idle", "done", "dead"}
                          /\ pc'[o] = "idle" => pc[o] = "idle"
                          /\ pc[o] \in {"idle", "done"} => pc'[o] = pc[o]
    BY DEF PowerLoss
  <1>c. \/ r.phase = "None" /\ r.txn = NoTxn
        \/ /\ r.phase # "None" /\ r.txn \in Ops /\ owns[r.txn]
           /\ r = IF r.phase = "Pending" THEN rec[r.txn]
                  ELSE Resolved(rec[r.txn], r.phase)
    BY DEF DiskInv
  <1>1. TypeOK'
    BY <1>a, <1>b DEF Steps, Files
  <1>2. LockInv' /\ RecInv' /\ DoneInv'
    BY <1>b DEF LockInv, RecInv, DoneInv, Records
  <1>3. DiskInv' /\ OneFate' /\ FileInv'
    <2>1. DiskInv'
      BY <1>a, <1>b, <1>c DEF DiskInv
    <2>2. OneFate' /\ FileInv'
      BY <1>a, <1>b DEF OneFate, FileInv
    <2> QED BY <2>1, <2>2
  <1>4. OwnerInv'
    BY <1>b DEF OwnerInv
  <1>5. RestoreInv'
    BY <1>b DEF RestoreInv
  <1>6. ReportInv'
    <2>1. r.phase = "Pending" => Due(r)'
      BY <1>b, <1>c DEF RecInv, Due
    <2> QED BY <2>1, <1>a, <1>b, <1>c DEF ReportInv
  <1>7. ServiceFollowsFile'
    BY <1>b DEF ServiceFollowsFile
  <1> QED BY <1>1, <1>2, <1>3, <1>4, <1>5, <1>6, <1>7

-----------------------------------------------------------------------------
(* The invariant is inductive *)

\* Idle owners, an empty journal and a synchronised file satisfy it.
LEMMA InitInv ==
  ASSUME Init
  PROVE  TypeOK /\ IInv
  <1> USE JournalAssumption DEF Init, Procs
  <1>1. NoRecord \in Records
    BY DEF NoRecord, Records, Phases
  <1>2. NoRecord.phase = "None" /\ NoRecord.txn = NoTxn
    BY DEF NoRecord
  <1>3. TypeOK
    BY <1>1 DEF TypeOK, Steps, ChangeStates, Files
  <1>4. LockInv /\ RecInv /\ DoneInv /\ OwnerInv /\ RestoreInv
    BY DEF LockInv, RecInv, DoneInv, OwnerInv, RestoreInv, Locked, LockedCalls,
           RestoreSteps
  <1>5. DiskInv /\ OneFate /\ FileInv /\ ReportInv /\ ServiceFollowsFile
    BY <1>2 DEF DiskInv, OneFate, FileInv, ReportInv, ServiceFollowsFile
  <1> QED BY <1>3, <1>4, <1>5 DEF IInv

\* Nothing the invariant mentions changes in a stuttering step.
LEMMA StutterInv ==
  ASSUME TypeOK, IInv, UNCHANGED vars
  PROVE  TypeOK' /\ IInv'
  <1> USE DEF vars, ownerVars, fileVars, jourVars, clockVars, netVars
  <1>1. TypeOK'
    BY DEF TypeOK
  <1>2. LockInv' /\ RecInv' /\ DoneInv'
    BY DEF IInv, LockInv, RecInv, DoneInv
  <1>3. DiskInv' /\ OneFate' /\ FileInv'
    BY DEF IInv, DiskInv, OneFate, FileInv
  <1>4. OwnerInv'
    BY DEF IInv, OwnerInv, Unresolved, Holds, Due
  <1>5. RestoreInv' /\ ReportInv' /\ ServiceFollowsFile'
    BY DEF IInv, RestoreInv, ReportInv, ServiceFollowsFile, Due
  <1> QED BY <1>1, <1>2, <1>3, <1>4, <1>5 DEF IInv

\* One step of an owner inside a call or inside its revert().
LEMMA OwnerStepInv ==
  ASSUME TypeOK, IInv, NEW o \in Ops, OwnerStep(o)
  PROVE  TypeOK' /\ IInv'
  BY PrepareOpenInv, BeginSaveInv, BeginSyncInv, ActivateOpenInv, ReplaceInv,
     ReplaceSyncInv, ApplyInv, CommitOpenInv, CommitSaveInv, CommitSyncInv,
     CallFailsInv, ApplyFailsInv, RollbackNothingInv, RollbackOpenInv,
     RollbackAlreadyInv, RollbackFailsInv DEF OwnerStep

\* One step of a restoration, of whoever runs it, or its failure.
LEMMA RestorationInv ==
  ASSUME TypeOK, IInv, NEW p \in Procs, RestoreStep(p) \/ RestoreFailure(p)
  PROVE  TypeOK' /\ IInv'
  BY RestoreFileInv, RestoreFileSyncInv, ReconfigureInv, RestoredSaveInv,
     RestoredSyncInv, RestoreFailsInv, ReconfigureFailsInv
  DEF RestoreStep, RestoreFailure

\* Every step of the system preserves the invariant.
LEMMA NextInv ==
  ASSUME TypeOK, IInv, [Next]_vars
  PROVE  TypeOK' /\ IInv'
  <1>1. ASSUME NEW o \in Ops, NEW net \in Nets, Start(o, net)
        PROVE  TypeOK' /\ IInv'
    BY <1>1, StartInv
  <1>2. ASSUME NEW o \in Ops, NEW ready \in BOOLEAN, Tick(o, ready)
        PROVE  TypeOK' /\ IInv'
    BY <1>2, TickInv
  <1>3. ASSUME NEW o \in Ops, Confirm(o) \/ Revert(o) \/ OwnerStep(o) \/ Kill(o)
        PROVE  TypeOK' /\ IInv'
    BY <1>3, ConfirmInv, RevertInv, OwnerStepInv, KillInv
  <1>4. ASSUME NEW p \in Procs, RestoreStep(p) \/ RestoreFailure(p)
        PROVE  TypeOK' /\ IInv'
    BY <1>4, RestorationInv
  <1>5. CASE SupervisorTick \/ SupervisorDies \/ SupervisorStarts
    BY <1>5, SupervisorTickInv, SupervisorDiesInv, SupervisorStartsInv
  <1>6. ASSUME NEW s \in BOOLEAN, ClockTick(s)
        PROVE  TypeOK' /\ IInv'
    BY <1>6, ClockTickInv
  <1>7. CASE JobRuns \/ PowerLoss
    BY <1>7, JobRunsInv, PowerLossInv
  <1>8. CASE UNCHANGED vars
    BY <1>8, StutterInv
  <1> QED BY <1>1, <1>2, <1>3, <1>4, <1>5, <1>6, <1>7, <1>8 DEF Next

-----------------------------------------------------------------------------
(* The theorems *)

\* For any number of owners, profiles, reboots and any confirmation window: the
\* inductive invariant holds in every reachable state.
THEOREM InvariantCorrect == Spec => [](TypeOK /\ IInv)
  <1>1. Init => TypeOK /\ IInv
    BY InitInv
  <1>2. (TypeOK /\ IInv) /\ [Next]_vars => (TypeOK /\ IInv)'
    BY NextInv
  <1> QED BY <1>1, <1>2, PTL DEF Spec

\* Every variable keeps its type: in particular every record ever written is
\* well formed and every candidate is a configuration.
THEOREM TypeCorrect == Spec => []TypeOK
  BY InvariantCorrect, PTL

\* After a power loss at any moment the configuration in force before the
\* transaction can still be found: the order journal, file, service of
\* prepare()/activate() and of restore_pending() suffices.
THEOREM CrashSafety == Spec => []CrashSafe
  <1>1. TypeOK /\ IInv => CrashSafe
    BY DEF TypeOK, Records, Phases, IInv, DiskInv, FileInv, CrashSafe
  <1> QED BY <1>1, InvariantCorrect, PTL

\* A change reported as committed is never undone by the supervisor, by another
\* owner or by a power loss.
THEOREM CommitFinality == Spec => []CommittedIsFinal
  <1>1. TypeOK /\ IInv => CommittedIsFinal
    BY DEF IInv, ReportInv, FileInv, CommittedIsFinal
  <1> QED BY <1>1, InvariantCorrect, PTL

\* A change reported as rolled back has its old file durably in place.
THEOREM RollbackRestores == Spec => []RolledBackIsRestored
  <1>1. TypeOK /\ IInv => RolledBackIsRestored
    <2> SUFFICES ASSUME TypeOK, IInv, NEW o \in Ops, change[o] = "RolledBack",
                        owns[o], journal.txn = o
                 PROVE  /\ journal.phase = "Restored" \/ Due(journal)
                        /\ fdisk = {rec[o].prev}
      BY DEF RolledBackIsRestored
    <2>1. journal \in jdisk /\ journal.phase \in Phases
      BY DEF IInv, DiskInv, TypeOK, Records
    <2>2. journal.phase # "None"
      BY <2>1, JournalAssumption DEF IInv, DiskInv
    <2>3. /\ journal.phase # "Committed"
          /\ fdisk = {rec[o].prev}
          /\ journal.phase = "Pending" => Due(journal)
      BY <2>1 DEF IInv, ReportInv
    <2> QED BY <2>1, <2>2, <2>3 DEF Phases
  <1> QED BY <1>1, InvariantCorrect, PTL

\* Outside a pending transaction the service runs with the managed file, or a
\* job that will make it so is outstanding.
THEOREM ServiceConsistency == Spec => []ServiceFollowsFile
  <1>1. TypeOK /\ IInv => ServiceFollowsFile
    BY DEF IInv
  <1> QED BY <1>1, InvariantCorrect, PTL

\* A restoration is run under the lock, of a pending transaction that is due or
\* the caller's own: the recovery worker never undoes somebody else's change.
THEOREM RestorationOwnership == Spec => []RestoresOwnTransaction
  <1>1. TypeOK /\ IInv => RestoresOwnTransaction
    BY DEF IInv, LockInv, Locked, RestoreInv, RestoresOwnTransaction
  <1> QED BY <1>1, InvariantCorrect, PTL

\* A pending transaction leaves the journal only through its own resolution
\* (or a power loss): neither prepare() nor begin() overwrites it.
THEOREM PendingKept == Spec => PendingNotOverwritten
  <1> DEFINE A == journal.phase = "Pending" /\ boot' = boot => journal'.txn = journal.txn
  <1>1. TypeOK /\ IInv /\ [Next]_vars => [A]_journal
    <2> SUFFICES ASSUME TypeOK, IInv, [Next]_vars, journal.phase = "Pending",
                        boot' = boot, journal' # journal
                 PROVE  journal'.txn = journal.txn
      OBVIOUS
    <2> USE DEF ownerVars, fileVars, jourVars, clockVars, netVars
    <2>1. ASSUME NEW o \in Ops, OwnerStep(o)
          PROVE  journal'.txn = journal.txn
      BY <2>1 DEF OwnerStep, PrepareOpen, BeginSave, BeginSync, ActivateOpen, Replace,
         ReplaceSync, Apply, CommitOpen, CommitSave, CommitSync, CallFails, ApplyFails,
         RollbackNothing, RollbackOpen, RollbackAlready, RollbackFails, Unresolved,
         JournalRename, JournalSync, Resolved, TypeOK, Records
    <2>2. ASSUME NEW p \in Procs, RestoreStep(p) \/ RestoreFailure(p)
          PROVE  journal'.txn = journal.txn
      BY <2>2 DEF RestoreStep, RestoreFailure, RestoreFile, RestoreFileSync, Reconfigure,
         RestoredSave, RestoredSync, RestoreFails, ReconfigureFails, JournalRename,
         JournalSync, Resolved, TypeOK, Records
    <2>3. ~PowerLoss
      BY DEF PowerLoss, TypeOK
    <2>4. ASSUME NEW o \in Ops, Confirm(o) \/ Revert(o) \/ Kill(o)
          PROVE  journal' = journal
      BY <2>4 DEF Confirm, Revert, Kill
    <2>5. ASSUME NEW o \in Ops, NEW net \in Nets, Start(o, net)
          PROVE  journal' = journal
      BY <2>5 DEF Start
    <2>6. ASSUME NEW o \in Ops, NEW ready \in BOOLEAN, Tick(o, ready)
          PROVE  journal' = journal
      BY <2>6 DEF Tick
    <2>7. ASSUME NEW s \in BOOLEAN, ClockTick(s)
          PROVE  journal' = journal
      BY <2>7 DEF ClockTick
    <2>8. CASE SupervisorTick \/ SupervisorDies \/ SupervisorStarts \/ JobRuns
      BY <2>8 DEF SupervisorTick, SupervisorDies, SupervisorStarts, JobRuns
    <2>9. CASE UNCHANGED vars
      BY <2>9 DEF vars
    <2> QED BY <2>1, <2>2, <2>3, <2>4, <2>5, <2>6, <2>7, <2>8, <2>9 DEF Next
  <1> QED BY <1>1, InvariantCorrect, PTL DEF Spec, PendingNotOverwritten

-----------------------------------------------------------------------------
(* What may be committed *)

\* An owner inside commit() has seen its connection up, and a Committed record
\* belongs to an owner that has left the watching loop for good.
ReadyAt(o) ==
  /\ pc[o] \in {"confirm", "commitSave", "commitSync"} =>
       change[o] = "AwaitingConfirmation"
  /\ \A r \in jdisk : r.phase = "Committed" /\ r.txn = o =>
       pc[o] # "watch" /\ change[o] \notin {"Idle", "Connecting"}

ReadyInv == \A o \in Ops : ReadyAt(o)

\* A step that commits nothing disturbs ReadyAt only by entering commit() or the
\* watching loop, or by reporting that the owner is connecting.
LEMMA ReadyFrame ==
  ASSUME ReadyInv, NEW o \in Ops,
         \A r \in jdisk' : r.phase = "Committed" => r \in jdisk,
         \/ pc'[o] = pc[o]
         \/ pc'[o] \notin {"watch", "confirm", "commitSave", "commitSync"},
         \/ change'[o] = change[o]
         \/ pc'[o] = "done" /\ change'[o] \notin {"Idle", "Connecting"}
  PROVE  ReadyAt(o)'
  BY DEF ReadyInv, ReadyAt

\* An owner starts without a record, and watches its own pending record first:
\* in neither case can its change be committed already.
LEMMA NotYetCommitted ==
  ASSUME TypeOK, IInv, ReadyInv, NEW o \in Ops, pc[o] \in {"idle", "apply", "watch"},
         NEW r \in jdisk, r.txn = o
  PROVE  r.phase # "Committed"
  <1>1. CASE pc[o] = "idle"
    <2>1. ~owns[o]
      BY <1>1 DEF IInv, RecInv
    <2> QED BY <2>1, JournalAssumption DEF IInv, DiskInv
  <1>2. CASE pc[o] = "apply"
    <2>1. journal.phase = "Pending" /\ journal.txn = o /\ journal \in jdisk
      BY <1>2 DEF IInv, OwnerInv, Holds, DiskInv
    <2> QED BY <2>1 DEF IInv, OneFate
  <1>3. CASE pc[o] = "watch"
    BY <1>3 DEF ReadyInv, ReadyAt
  <1> QED BY <1>1, <1>2, <1>3

\* The steps of an owner that start, watch and commit.
LEMMA ReadyOwner ==
  ASSUME TypeOK, IInv, ReadyInv, NEW o \in Ops,
         \/ \E net \in Nets : Start(o, net)
         \/ \E ready \in BOOLEAN : Tick(o, ready)
         \/ Confirm(o) \/ Apply(o) \/ CommitOpen(o) \/ CommitSave(o)
  PROVE  ReadyInv'
  <1> USE JournalAssumption DEF ownerVars, fileVars, jourVars, clockVars, netVars, Goto, Procs
  <1> DEFINE Others == \A q \in Ops \ {o} : pc'[q] = pc[q] /\ change'[q] = change[q]
  <1> DEFINE Quiet  == ReadyAt(o)' /\ Others /\ jdisk' = jdisk
  <1>1. ASSUME Quiet
        PROVE  ReadyInv'
    <2>1. \A q \in Ops \ {o} : ReadyAt(q)'
      BY <1>1, ReadyFrame
    <2> QED BY <1>1, <2>1 DEF ReadyInv
  <1>2. ASSUME NEW net \in Nets, Start(o, net)
        PROVE  Quiet
    <2>1. pc'[o] = "prepare" /\ Others /\ jdisk' = jdisk
      BY <1>2 DEF Start, TypeOK
    <2>2. \A r \in jdisk' : r.txn = o => r.phase # "Committed"
      BY <1>2, <2>1, NotYetCommitted DEF Start
    <2> QED BY <2>1, <2>2 DEF ReadyAt
  <1>3. ASSUME NEW ready \in BOOLEAN, Tick(o, ready)
        PROVE  Quiet
    <2>1. pc'[o] = "watch" /\ Others /\ jdisk' = jdisk
      BY <1>3 DEF Tick, TypeOK
    <2>2. \A r \in jdisk' : r.txn = o => r.phase # "Committed"
      BY <1>3, <2>1, NotYetCommitted DEF Tick
    <2> QED BY <2>1, <2>2 DEF ReadyAt
  <1>4. ASSUME Confirm(o)
        PROVE  Quiet
    <2>1. /\ pc'[o] = "confirm" /\ change'[o] = "AwaitingConfirmation"
          /\ Others /\ jdisk' = jdisk
      BY <1>4 DEF Confirm, TypeOK
    <2> QED BY <2>1 DEF ReadyAt
  <1>5. ASSUME Apply(o)
        PROVE  Quiet
    <2>1. pc'[o] = "watch" /\ Others /\ jdisk' = jdisk
      BY <1>5 DEF Apply, TypeOK
    <2>2. \A r \in jdisk' : r.txn = o => r.phase # "Committed"
      BY <1>5, <2>1, NotYetCommitted DEF Apply
    <2> QED BY <2>1, <2>2 DEF ReadyAt
  <1>6. ASSUME CommitOpen(o)
        PROVE  Quiet
    <2>1. /\ pc[o] = "confirm" /\ pc'[o] = "commitSave" /\ change' = change
          /\ Others /\ jdisk' = jdisk
      BY <1>6 DEF CommitOpen, TypeOK
    <2>2. change[o] = "AwaitingConfirmation"
      BY <2>1 DEF ReadyInv, ReadyAt
    <2> QED BY <2>1, <2>2 DEF ReadyAt
  <1>7. ASSUME CommitSave(o)
        PROVE  ReadyInv'
    <2> DEFINE new == Resolved(journal, "Committed")
    <2>1. /\ pc[o] = "commitSave" /\ pc'[o] = "commitSync" /\ change' = change
          /\ Others /\ jdisk' = jdisk \cup {new}
      BY <1>7 DEF CommitSave, JournalRename, TypeOK
    <2>2. new.txn = o
      BY <2>1 DEF Resolved, IInv, OwnerInv, Holds, TypeOK, Records
    <2>3. change'[o] = "AwaitingConfirmation"
      BY <2>1 DEF ReadyInv, ReadyAt
    <2> HIDE DEF new
    <2>4. ReadyAt(o)'
      BY <2>1, <2>3 DEF ReadyAt
    <2>5. ASSUME NEW q \in Ops \ {o}
          PROVE  ReadyAt(q)'
      BY <2>1, <2>2, <2>5 DEF ReadyInv, ReadyAt
    <2> QED BY <2>4, <2>5 DEF ReadyInv
  <1> HIDE DEF Quiet
  <1> QED BY <1>1, <1>2, <1>3, <1>4, <1>5, <1>6, <1>7

\* The other steps of an owner.
LEMMA ReadyCalls ==
  ASSUME TypeOK, IInv, ReadyInv, NEW o \in Ops,
         OwnerStep(o) \/ Revert(o) \/ Kill(o),
         ~Apply(o), ~CommitOpen(o), ~CommitSave(o)
  PROVE  ReadyInv'
  <1> USE JournalAssumption DEF ownerVars, fileVars, jourVars, clockVars, netVars, Goto, Procs
  <1> DEFINE Moves == /\ pc'[o] \notin {"watch", "confirm", "commitSave", "commitSync"}
                      /\ \/ change'[o] = change[o]
                         \/ pc'[o] = "done" /\ change'[o] \notin {"Idle", "Connecting"}
                      /\ \A q \in Ops \ {o} : pc'[q] = pc[q] /\ change'[q] = change[q]
  <1>1. journal \in jdisk
    BY DEF IInv, DiskInv
  <1>2. ASSUME BeginSave(o)
        PROVE  Moves /\ jdisk' = jdisk \cup {rec[o]} /\ rec[o].phase = "Pending"
    <2>1. owns[o]
      BY <1>2 DEF BeginSave, IInv, RecInv
    <2> QED BY <1>2, <2>1 DEF BeginSave, JournalRename, IInv, RecInv, TypeOK
  <1>3. ASSUME BeginSync(o) \/ CommitSync(o)
        PROVE  Moves /\ jdisk' = {journal}
    BY <1>3 DEF BeginSync, CommitSync, JournalSync, TypeOK
  <1>4. ASSUME \/ PrepareOpen(o) \/ ActivateOpen(o) \/ Replace(o) \/ ReplaceSync(o)
               \/ CallFails(o) \/ ApplyFails(o) \/ RollbackOpen(o) \/ Revert(o) \/ Kill(o)
        PROVE  Moves /\ jdisk' = jdisk
    BY <1>4 DEF PrepareOpen, ActivateOpen, Replace, ReplaceSync, CallFails, ApplyFails,
       RollbackOpen, Revert, Kill, TypeOK
  <1>5. ASSUME RollbackNothing(o) \/ RollbackAlready(o) \/ RollbackFails(o)
        PROVE  Moves /\ jdisk' = jdisk
    BY <1>5 DEF RollbackNothing, RollbackAlready, RollbackFails, Report, TypeOK
  <1>6. Moves /\ \A r \in jdisk' : r.phase = "Committed" => r \in jdisk
    <2> HIDE DEF Moves
    <2> QED BY <1>1, <1>2, <1>3, <1>4, <1>5 DEF OwnerStep
  <1> QED BY <1>6, ReadyFrame DEF ReadyInv

\* A restoration, by an owner or by the supervisor.
LEMMA ReadyRestoration ==
  ASSUME TypeOK, IInv, ReadyInv, NEW p \in Procs, RestoreStep(p) \/ RestoreFailure(p)
  PROVE  ReadyInv'
  <1> USE JournalAssumption DEF ownerVars, fileVars, jourVars, clockVars, netVars, Goto, Procs
  <1> DEFINE Moves == \A o \in Ops :
               /\ \/ pc'[o] = pc[o]
                  \/ pc'[o] \notin {"watch", "confirm", "commitSave", "commitSync"}
               /\ \/ change'[o] = change[o]
                  \/ pc'[o] = "done" /\ change'[o] \notin {"Idle", "Connecting"}
  <1>1. journal \in jdisk
    BY DEF IInv, DiskInv
  <1>2. ASSUME RestoreFile(p) \/ RestoreFileSync(p) \/ Reconfigure(p)
        PROVE  Moves /\ jdisk' = jdisk
    BY <1>2 DEF RestoreFile, RestoreFileSync, Reconfigure, TypeOK
  <1>3. ASSUME RestoredSave(p)
        PROVE  /\ Moves /\ jdisk' = jdisk \cup {Resolved(journal, "Restored")}
               /\ Resolved(journal, "Restored").phase # "Committed"
    BY <1>3 DEF RestoredSave, JournalRename, Resolved, TypeOK, Records
  <1>4. ASSUME NEW state \in {"RolledBack", "RecoveryRequired"}, RestoreReturns(p, state)
        PROVE  Moves
    BY <1>4 DEF RestoreReturns, Report, TypeOK
  <1>5. ASSUME RestoredSync(p)
        PROVE  Moves /\ jdisk' = {journal}
    <2>1. RestoreReturns(p, "RolledBack") /\ jdisk' = {journal}
      BY <1>5 DEF RestoredSync, JournalSync
    <2> QED BY <1>4, <2>1
  <1>6. ASSUME RestoreFailure(p)
        PROVE  Moves /\ jdisk' = jdisk
    <2>1. RestoreReturns(p, "RecoveryRequired") /\ jdisk' = jdisk
      BY <1>6 DEF RestoreFailure, RestoreFails, ReconfigureFails
    <2> QED BY <1>4, <2>1
  <1>7. Moves /\ \A r \in jdisk' : r.phase = "Committed" => r \in jdisk
    <2> HIDE DEF Moves
    <2> QED BY <1>1, <1>2, <1>3, <1>5, <1>6 DEF RestoreStep
  <1> QED BY <1>7, ReadyFrame DEF ReadyInv

\* Supervisor, clocks, jobs and power.
LEMMA ReadyEnvironment ==
  ASSUME TypeOK, IInv, ReadyInv,
         \/ SupervisorTick \/ SupervisorDies \/ SupervisorStarts \/ JobRuns
         \/ \E suspended \in BOOLEAN : ClockTick(suspended)
         \/ PowerLoss \/ UNCHANGED vars
  PROVE  ReadyInv'
  <1> USE JournalAssumption DEF ownerVars, fileVars, jourVars, clockVars, netVars, Goto, Procs
  <1> DEFINE Moves == \A o \in Ops :
               /\ pc'[o] = pc[o] \/ pc'[o] = "dead"
               /\ change'[o] = change[o]
  <1>1. CASE SupervisorTick \/ SupervisorDies \/ SupervisorStarts
    <2>1. Moves /\ jdisk' = jdisk
      BY <1>1 DEF SupervisorTick, SupervisorDies, SupervisorStarts, TypeOK
    <2> QED BY <2>1, ReadyFrame DEF ReadyInv
  <1>2. CASE JobRuns \/ (\E suspended \in BOOLEAN : ClockTick(suspended)) \/ UNCHANGED vars
    <2>1. Moves /\ jdisk' = jdisk
      BY <1>2 DEF JobRuns, ClockTick, vars
    <2> QED BY <2>1, ReadyFrame DEF ReadyInv
  <1>3. CASE PowerLoss
    <2>1. Moves /\ jdisk' \subseteq jdisk
      BY <1>3 DEF PowerLoss, JournalPowerLoss, TypeOK
    <2> QED BY <2>1, ReadyFrame DEF ReadyInv
  <1> QED BY <1>1, <1>2, <1>3

\* Every step of the system preserves ReadyInv.
LEMMA ReadyStep ==
  ASSUME TypeOK, IInv, ReadyInv, [Next]_vars
  PROVE  ReadyInv'
  BY ReadyOwner, ReadyCalls, ReadyRestoration, ReadyEnvironment DEF Next

\* A change that was still connecting, or was reported as rolled back, can never
\* turn out committed, whoever died in whichever step and whatever a power loss
\* left of the journal: only confirm() after a successful tick() gets there.
THEOREM CommitReady == Spec => []CommittedWasReady
  <1>1. Init => ReadyInv
    BY DEF Init, ReadyInv, ReadyAt, NoRecord, Procs
  <1>2. TypeOK /\ IInv /\ ReadyInv /\ [Next]_vars => ReadyInv'
    BY ReadyStep
  <1>3. TypeOK /\ IInv /\ ReadyInv => CommittedWasReady
    <2> SUFFICES ASSUME TypeOK, IInv, ReadyInv, NEW r \in jdisk, r.phase = "Committed"
                 PROVE  change[r.txn] \in
                          {"AwaitingConfirmation", "Committed", "RecoveryRequired"}
      BY DEF CommittedWasReady
    <2>1. r.txn \in Ops /\ owns[r.txn]
      BY DEF IInv, DiskInv
    <2>2. change[r.txn] # "RolledBack"
      BY <2>1 DEF IInv, ReportInv
    <2>3. change[r.txn] \notin {"Idle", "Connecting"}
      BY <2>1 DEF ReadyInv, ReadyAt
    <2> QED BY <2>1, <2>2, <2>3 DEF TypeOK, ChangeStates
  <1> QED BY <1>1, <1>2, <1>3, InvariantCorrect, PTL DEF Spec
=============================================================================
