-------------------------- MODULE WifiSwitchProofs --------------------------
(***************************************************************************)
(* WifiRecovery implements the atomic switch of WifiSwitch, for any number *)
(* of owners, profiles and reboots: every initial state maps to an initial *)
(* state, and every step to a step of the switch or to no step at all.     *)
(* The DHCPv6 policy of the managed file comes last.                       *)
(***************************************************************************)
EXTENDS WifiRecoveryProofs

\* The refinement mapping of Switch.
Possible == {Settled(r, f) : r \in jdisk, f \in fdisk}
Outcomes == [o \in Ops |-> Outcome(o)]

\* One step of the switch, or none.
SwitchStep == [Switch!Next]_<<Settled(journal, file), Possible, Outcomes>>

-----------------------------------------------------------------------------
(* What the switch sees *)

\* A step that leaves journal, file and outcomes alone is invisible.
LEMMA Invisible ==
  ASSUME UNCHANGED <<Settled(journal, file), Possible>>,
         \A q \in Ops : Outcome(q)' = Outcome(q)
  PROVE  SwitchStep
  BY DEF SwitchStep, Outcomes

\* Making everything tentative durable.
LEMMA Flushes ==
  ASSUME UNCHANGED Settled(journal, file), Possible' = {Settled(journal, file)},
         \A q \in Ops : Outcome(q)' = Outcome(q)
  PROVE  SwitchStep
  BY DEF SwitchStep, Outcomes, Possible, Switch!Next, Switch!Flush

\* A change ends without an acknowledged commit.
LEMMA Ends ==
  ASSUME NEW o \in Ops, Outcome(o) = "open",
         Outcome(o)' = "rolledBack" \/ Outcome(o)' = "unknown",
         \A q \in Ops \ {o} : Outcome(q)' = Outcome(q),
         UNCHANGED Settled(journal, file),
         Possible' = Possible \/ Possible' = {Settled(journal, file)}
  PROVE  SwitchStep
  <1> DEFINE EndsAs(how) == Switch!End(o, how)
  <1>1. ASSUME NEW how, Outcome(o)' = how
        PROVE  EndsAs(how)
    <2>1. Outcomes' = [Outcomes EXCEPT ![o] = how]
      BY <1>1 DEF Outcomes
    <2>2. Possible' \in {Possible, {Settled(journal, file)}}
      OBVIOUS
    <2>3. [q \in Ops |-> Outcome(q)][o] = "open"
      OBVIOUS
    <2>4. [q \in Ops |-> Outcome(q)]' = [[q \in Ops |-> Outcome(q)] EXCEPT ![o] = how]
      BY <2>1 DEF Outcomes
    <2>5. {Settled(r, f) : r \in jdisk, f \in fdisk}' \in
            {{Settled(r, f) : r \in jdisk, f \in fdisk}, {Settled(journal, file)}}
      BY <2>2 DEF Possible
    <2> QED BY <2>3, <2>4, <2>5 DEF Switch!End
  <1>2. EndsAs("rolledBack") \/ EndsAs("unknown")
    BY <1>1
  <1> QED BY <1>2 DEF SwitchStep, Switch!Next

\* The outcome of an owner, by its last report.
LEMMA OutcomeOf ==
  ASSUME NEW o \in Ops
  PROVE  /\ change[o] = "Committed" => Outcome(o) = "committed"
         /\ change[o] = "RolledBack" => Outcome(o) = "rolledBack"
         /\ change[o] = "RecoveryRequired" => Outcome(o) = "unknown"
         /\ change[o] \notin {"Committed", "RolledBack", "RecoveryRequired"} =>
              Outcome(o) = IF pc[o] = "dead" THEN "unknown" ELSE "open"
  BY DEF Outcome

\* The same in the next state.
LEMMA OutcomeNext ==
  ASSUME NEW o \in Ops
  PROVE  /\ change'[o] = "Committed" => Outcome(o)' = "committed"
         /\ change'[o] = "RolledBack" => Outcome(o)' = "rolledBack"
         /\ change'[o] = "RecoveryRequired" => Outcome(o)' = "unknown"
         /\ change'[o] \notin {"Committed", "RolledBack", "RecoveryRequired"} =>
              Outcome(o)' = IF pc'[o] = "dead" THEN "unknown" ELSE "open"
  BY DEF Outcome

\* An owner that has neither reported nor died has an open outcome, and an
\* owner that moves between two such steps keeps it.
LEMMA OutcomeKept ==
  ASSUME NEW q \in Ops,
         \/ change'[q] = change[q] /\ pc'[q] = pc[q]
         \/ /\ {change[q], change'[q]} \cap {"Committed", "RolledBack", "RecoveryRequired"} = {}
            /\ "dead" \notin {pc[q], pc'[q]}
  PROVE  Outcome(q)' = Outcome(q)
  BY OutcomeOf, OutcomeNext DEF Outcome

\* What is settled and what is possible, when the storage stays.
LEMMA StorageSame ==
  ASSUME UNCHANGED <<journal, file, jdisk, fdisk>>
  PROVE  UNCHANGED <<Settled(journal, file), Possible>>
  BY DEF Settled, Possible

\* fsync of the state directory leaves nothing tentative.
LEMMA SyncPossible ==
  ASSUME TypeOK, IInv, JournalSync, UNCHANGED <<file, fdisk>>
  PROVE  UNCHANGED Settled(journal, file) /\ Possible' = {Settled(journal, file)}
  <1>1. journal \in jdisk /\ file \in fdisk /\ journal' = journal /\ jdisk' = {journal}
    BY DEF IInv, DiskInv, JournalSync
  <1>2. journal.phase # "Pending" => fdisk = {file}
    BY <1>1 DEF IInv, FileInv, DiskInv, TypeOK, Records, Phases
  <1>3. \A f \in fdisk : Settled(journal, f) = Settled(journal, file)
    BY <1>2 DEF Settled
  <1> QED BY <1>1, <1>3 DEF Possible, Settled

\* With only the pending record on the disk, only its backup is possible.
LEMMA PendingPossible ==
  ASSUME journal.phase = "Pending", jdisk = {journal}, file \in fdisk
  PROVE  Possible = {journal.prev} /\ Settled(journal, file) = journal.prev
  BY DEF Possible, Settled

\* The file changes under the only record there is, which is pending.
LEMMA FileMoves ==
  ASSUME journal.phase = "Pending", jdisk = {journal}, UNCHANGED <<journal, jdisk>>,
         file \in fdisk, file' \in fdisk'
  PROVE  UNCHANGED <<Settled(journal, file), Possible>>
  BY DEF Possible, Settled
-----------------------------------------------------------------------------
(* Each step of the recovery protocol, seen as a switch *)

\* Steps of an owner that neither write nor report.
LEMMA QuietStep ==
  ASSUME TypeOK, IInv, NEW o \in Ops,
         \/ \E net \in Nets : Start(o, net)
         \/ \E ready \in BOOLEAN : Tick(o, ready)
         \/ Confirm(o) \/ Revert(o) \/ PrepareOpen(o) \/ ActivateOpen(o)
         \/ Apply(o) \/ ApplyFails(o) \/ CommitOpen(o) \/ CallFails(o) \/ RollbackOpen(o)
  PROVE  SwitchStep
  <1> USE DEF ownerVars, fileVars, jourVars, clockVars, netVars, Goto
  <1>1. UNCHANGED <<journal, file, jdisk, fdisk>>
    BY DEF Start, Tick, Confirm, Revert, PrepareOpen, ActivateOpen, Apply, ApplyFails,
       CommitOpen, CallFails, RollbackOpen
  <1>2. pc \in [Procs -> Steps] /\ change \in [Ops -> ChangeStates] /\ o \in Procs
    BY DEF TypeOK, Procs
  <1>3. /\ pc[o] \notin {"done", "dead"}
        /\ change[o] \notin {"Committed", "RolledBack", "RecoveryRequired"}
    BY DEF Start, Tick, Confirm, Revert, PrepareOpen, ActivateOpen, Apply, ApplyFails,
       CommitOpen, CallFails, RollbackOpen, Calls, LockedCalls, IInv, DoneInv
  <1>4. /\ pc'[o] # "dead" /\ \A q \in Ops \ {o} : pc'[q] = pc[q]
        /\ change'[o] \notin {"Committed", "RolledBack", "RecoveryRequired"}
        /\ \A q \in Ops \ {o} : change'[q] = change[q]
    BY <1>2, <1>3 DEF Start, Tick, Confirm, Revert, PrepareOpen, ActivateOpen, Apply,
       ApplyFails, CommitOpen, CallFails, RollbackOpen, Procs
  <1>5. \A q \in Ops : Outcome(q)' = Outcome(q)
    BY <1>3, <1>4, OutcomeKept
  <1> QED BY <1>1, <1>5, StorageSame, Invisible

\* An owner between two of its steps: everybody's outcome stays as it is.
LEMMA OwnerMoves ==
  ASSUME TypeOK, IInv, NEW p \in Procs, NEW step \in Steps \ {"dead"},
         pc[p] \notin {"done", "dead"}, Goto(p, step), UNCHANGED ownerVars
  PROVE  \A q \in Ops : Outcome(q)' = Outcome(q)
  <1> SUFFICES ASSUME NEW q \in Ops PROVE Outcome(q)' = Outcome(q)
    OBVIOUS
  <1>1. pc' = [pc EXCEPT ![p] = step] /\ change' = change /\ pc \in [Procs -> Steps]
    BY DEF Goto, ownerVars, TypeOK
  <1>2. CASE q # p
    BY <1>1, <1>2, OutcomeKept DEF Procs
  <1>3. CASE q = p
    <2>1. change[q] \notin {"Committed", "RolledBack", "RecoveryRequired"}
      BY <1>3 DEF IInv, DoneInv
    <2> QED BY <1>1, <1>3, <2>1, OutcomeKept
  <1> QED BY <1>2, <1>3

\* begin() writes the new record: its backup is the file that is in force.
LEMMA BeginSaveStep ==
  ASSUME TypeOK, IInv, NEW o \in Ops, BeginSave(o)
  PROVE  SwitchStep
  <1>1. /\ journal \in jdisk /\ file \in fdisk /\ rec[o].prev = file
        /\ rec[o].phase = "Pending" /\ journal.phase # "Pending"
    BY DEF IInv, DiskInv, OwnerInv, RecInv, BeginSave, Unresolved
  <1>2. fdisk = {file}
    BY <1>1 DEF IInv, FileInv, DiskInv, TypeOK, Records, Phases
  <1>3. /\ journal' = rec[o] /\ jdisk' = jdisk \cup {rec[o]} /\ file' = file /\ fdisk' = fdisk
    BY DEF BeginSave, JournalRename, fileVars
  <1>4. UNCHANGED Settled(journal, file)
    BY <1>1, <1>3 DEF Settled
  <1>5. Settled(rec[o], file) = Settled(journal, file)
    BY <1>1 DEF Settled
  <1>6. Possible' = Possible
    BY <1>1, <1>2, <1>3, <1>5 DEF Possible
  <1>7. \A q \in Ops : Outcome(q)' = Outcome(q)
    BY OwnerMoves DEF BeginSave, Procs, Steps, Calls, LockedCalls
  <1> QED BY <1>4, <1>6, <1>7, Invisible

\* prepare() returns with the record durable.
LEMMA BeginSyncStep ==
  ASSUME TypeOK, IInv, NEW o \in Ops, BeginSync(o)
  PROVE  SwitchStep
  <1>1. \A q \in Ops : Outcome(q)' = Outcome(q)
    BY OwnerMoves DEF BeginSync, Procs, Steps, Calls, LockedCalls
  <1> QED BY <1>1, SyncPossible, Flushes DEF BeginSync, fileVars

\* The candidate is put in place, and made durable, under the pending record.
LEMMA ReplaceStep ==
  ASSUME TypeOK, IInv, NEW o \in Ops, Replace(o) \/ ReplaceSync(o)
  PROVE  SwitchStep
  <1>1. journal.phase = "Pending" /\ jdisk = {journal} /\ file \in fdisk
    BY DEF Replace, ReplaceSync, IInv, OwnerInv, DiskInv, Holds
  <1>2. file' \in fdisk' /\ UNCHANGED <<journal, jdisk>>
    BY <1>1 DEF Replace, ReplaceSync, FileRename, FileSync, jourVars
  <1>3. \A q \in Ops : Outcome(q)' = Outcome(q)
    BY OwnerMoves DEF Replace, ReplaceSync, Procs, Steps, Calls, LockedCalls
  <1> QED BY <1>1, <1>2, <1>3, FileMoves, Invisible

\* The commit record is renamed into place: the candidate is in force, and the
\* old file remains possible until the next fsync.
LEMMA CommitSaveStep ==
  ASSUME TypeOK, IInv, NEW o \in Ops, CommitSave(o)
  PROVE  SwitchStep
  <1> DEFINE new == Resolved(journal, "Committed")
  <1>1. /\ journal.phase = "Pending" /\ jdisk = {journal} /\ fdisk = {cand[o]}
        /\ file \in fdisk /\ journal \in Records /\ file \in Files
    BY DEF CommitSave, IInv, OwnerInv, DiskInv, Holds, TypeOK
  <1>2. journal' = new /\ jdisk' = jdisk \cup {new} /\ file' = file /\ fdisk' = fdisk
    BY DEF CommitSave, JournalRename, fileVars
  <1>3. new.phase = "Committed"
    BY <1>1 DEF Resolved, Records
  <1> HIDE DEF new
  <1>4. Settled(journal, file)' = file
    BY <1>2, <1>3 DEF Settled
  <1>5. Possible' = Possible \cup {file}
    BY <1>1, <1>2, <1>3 DEF Possible, Settled
  <1>6. \A q \in Ops : Outcome(q)' = Outcome(q)
    BY OwnerMoves DEF CommitSave, Procs, Steps, Calls, LockedCalls
  <1>7. Outcome(o) = "open"
    BY OutcomeOf DEF CommitSave, IInv, DoneInv
  <1>8. Switch!Commit(o)
    <2>1. [q \in Ops |-> Outcome(q)][o] = "open"
      BY <1>7
    <2>2. Settled(journal, file)' \in Files
      BY <1>1, <1>4
    <2>3. {Settled(r, f) : r \in jdisk, f \in fdisk}' =
            {Settled(r, f) : r \in jdisk, f \in fdisk} \cup {Settled(journal, file)'}
      BY <1>4, <1>5 DEF Possible
    <2>4. UNCHANGED [q \in Ops |-> Outcome(q)]
      BY <1>6
    <2> QED BY <2>1, <2>2, <2>3, <2>4 DEF Switch!Commit
  <1> QED BY <1>8 DEF SwitchStep, Switch!Next

\* commit() returns: the commit is durable and acknowledged.
LEMMA CommitSyncStep ==
  ASSUME TypeOK, IInv, NEW o \in Ops, CommitSync(o)
  PROVE  SwitchStep
  <1>1. UNCHANGED Settled(journal, file) /\ Possible' = {Settled(journal, file)}
    BY SyncPossible DEF CommitSync, fileVars
  <1>2. Outcome(o) = "open"
    BY OutcomeOf DEF CommitSync, IInv, DoneInv
  <1>3. /\ change' = [change EXCEPT ![o] = "Committed"] /\ pc' = [pc EXCEPT ![o] = "done"]
        /\ change \in [Ops -> ChangeStates] /\ pc \in [Procs -> Steps]
    BY DEF CommitSync, Goto, TypeOK
  <1>4. Outcome(o)' = "committed"
    BY <1>3, OutcomeNext
  <1>5. \A q \in Ops \ {o} : Outcome(q)' = Outcome(q)
    BY <1>3, OutcomeKept DEF Procs
  <1>6. Switch!Acknowledge(o)
    <2>1. [q \in Ops |-> Outcome(q)][o] = "open"
      BY <1>2
    <2>2. [q \in Ops |-> Outcome(q)]' = [[q \in Ops |-> Outcome(q)] EXCEPT ![o] = "committed"]
      BY <1>4, <1>5
    <2>3. {Settled(r, f) : r \in jdisk, f \in fdisk}' = {Settled(journal, file)}
      BY <1>1 DEF Possible
    <2> QED BY <1>1, <2>1, <2>2, <2>3 DEF Switch!Acknowledge
  <1> QED BY <1>6 DEF SwitchStep, Switch!Next

\* An owner reports anything but a commit.
LEMMA ReportEnds ==
  ASSUME TypeOK, IInv, NEW o \in Ops, NEW state \in {"RolledBack", "RecoveryRequired"},
         pc[o] \notin {"done", "dead"}, Report(o, state),
         UNCHANGED Settled(journal, file),
         Possible' = Possible \/ Possible' = {Settled(journal, file)}
  PROVE  SwitchStep
  <1>1. Outcome(o) = "open"
    BY OutcomeOf DEF IInv, DoneInv
  <1>2. /\ change' = [change EXCEPT ![o] = state] /\ pc' = [pc EXCEPT ![o] = "done"]
        /\ change \in [Ops -> ChangeStates] /\ pc \in [Procs -> Steps]
    BY DEF Report, Goto, TypeOK
  <1>3. Outcome(o)' = "rolledBack" \/ Outcome(o)' = "unknown"
    BY <1>2, OutcomeNext
  <1>4. \A q \in Ops \ {o} : Outcome(q)' = Outcome(q)
    BY <1>2, OutcomeKept DEF Procs
  <1> QED BY <1>1, <1>3, <1>4, Ends

\* rollback() with nothing to cancel, already restored, or impossible.
LEMMA RollbackStep ==
  ASSUME TypeOK, IInv, NEW o \in Ops,
         RollbackNothing(o) \/ RollbackAlready(o) \/ RollbackFails(o)
  PROVE  SwitchStep
  <1>1. UNCHANGED <<journal, file, jdisk, fdisk>> /\ pc[o] = "revert"
    BY DEF RollbackNothing, RollbackAlready, RollbackFails, fileVars, jourVars
  <1>2. \E state \in {"RolledBack", "RecoveryRequired"} : Report(o, state)
    BY DEF RollbackNothing, RollbackAlready, RollbackFails
  <1> QED BY <1>1, <1>2, StorageSame, ReportEnds

\* The old file comes back, and becomes durable, under the pending record.
LEMMA RestoreFileStep ==
  ASSUME TypeOK, IInv, NEW p \in Procs, RestoreFile(p) \/ RestoreFileSync(p)
  PROVE  SwitchStep
  <1>1. journal.phase = "Pending" /\ file \in fdisk /\ journal \in jdisk
    BY DEF RestoreFile, RestoreFileSync, IInv, RestoreInv, DiskInv, RestoreSteps
  <1>2. /\ file' = journal.prev /\ UNCHANGED <<journal, jdisk>>
        /\ fdisk' = fdisk \cup {journal.prev} \/ fdisk' = {journal.prev}
    BY DEF RestoreFile, RestoreFileSync, FileRename, FileSync, jourVars, IInv, RestoreInv
  <1>3. \A q \in Ops : Outcome(q)' = Outcome(q)
    BY OwnerMoves DEF RestoreFile, RestoreFileSync, Steps, RestoreSteps
  <1>4. CASE jdisk = {journal}
    BY <1>1, <1>2, <1>3, <1>4, FileMoves, Invisible
  <1>5. CASE jdisk # {journal}
    <2>1. fdisk = {journal.prev} /\ file = journal.prev
      BY <1>1, <1>5 DEF IInv, FileInv
    <2>2. UNCHANGED <<journal, file, jdisk, fdisk>>
      BY <1>2, <2>1
    <2> QED BY <1>3, <2>2, StorageSame, Invisible
  <1> QED BY <1>4, <1>5

\* The restoration is recorded: the file is the backup already.
LEMMA RestoredSaveStep ==
  ASSUME TypeOK, IInv, NEW p \in Procs, RestoredSave(p)
  PROVE  SwitchStep
  <1> DEFINE new == Resolved(journal, "Restored")
  <1>1. /\ journal.phase = "Pending" /\ fdisk = {journal.prev} /\ journal \in Records
        /\ file = journal.prev /\ journal \in jdisk
    BY DEF RestoredSave, IInv, RestoreInv, RestoreSteps, DiskInv, TypeOK
  <1>2. journal' = new /\ jdisk' = jdisk \cup {new} /\ file' = file /\ fdisk' = fdisk
    BY DEF RestoredSave, JournalRename, fileVars
  <1>3. new.phase = "Restored"
    BY <1>1 DEF Resolved, Records
  <1> HIDE DEF new
  <1>4. Settled(new, file) = Settled(journal, file)
    BY <1>1, <1>3 DEF Settled
  <1>5. UNCHANGED Settled(journal, file)
    BY <1>2, <1>4 DEF Settled
  <1>6. Possible' = Possible
    BY <1>1, <1>2, <1>4 DEF Possible
  <1>7. \A q \in Ops : Outcome(q)' = Outcome(q)
    BY OwnerMoves DEF RestoredSave, Steps, RestoreSteps
  <1> QED BY <1>5, <1>6, <1>7, Invisible

\* The restored service changes nothing that the switch sees.
LEMMA ReconfigureStep ==
  ASSUME TypeOK, IInv, NEW p \in Procs, Reconfigure(p)
  PROVE  SwitchStep
  <1>1. \A q \in Ops : Outcome(q)' = Outcome(q)
    BY OwnerMoves DEF Reconfigure, Steps, RestoreSteps
  <1> QED BY <1>1, StorageSame, Invisible DEF Reconfigure, fileVars, jourVars

\* restore_pending() returns, in one way or another, to whoever called it.
LEMMA RestoreEnds ==
  ASSUME TypeOK, IInv, NEW p \in Procs,
         RestoredSync(p) \/ RestoreFails(p) \/ ReconfigureFails(p)
  PROVE  SwitchStep
  <1>1. \/ UNCHANGED <<Settled(journal, file), Possible>>
        \/ UNCHANGED Settled(journal, file) /\ Possible' = {Settled(journal, file)}
    BY SyncPossible, StorageSame
       DEF RestoredSync, RestoreFails, ReconfigureFails, fileVars, jourVars
  <1>2. pc[p] \notin {"done", "dead"}
    BY DEF RestoredSync, RestoreFails, ReconfigureFails, RestoreSteps
  <1>3. CASE p = Supervisor
    <2>1. Goto(p, "idle") /\ UNCHANGED ownerVars
      BY <1>3 DEF RestoredSync, RestoreFails, ReconfigureFails, RestoreReturns
    <2>2. \A q \in Ops : Outcome(q)' = Outcome(q)
      BY <1>2, <2>1, OwnerMoves DEF Steps
    <2> QED BY <1>1, <2>2, Invisible, Flushes
  <1>4. CASE p # Supervisor
    <2>1. \E state \in {"RolledBack", "RecoveryRequired"} : Report(p, state)
      BY <1>4 DEF RestoredSync, RestoreFails, ReconfigureFails, RestoreReturns
    <2>2. p \in Ops
      BY <1>4 DEF Procs
    <2> QED BY <1>1, <1>2, <2>1, <2>2, ReportEnds
  <1> QED BY <1>3, <1>4

\* The helper of an owner is killed: nobody will learn how its change ended.
LEMMA KillStep ==
  ASSUME TypeOK, IInv, NEW o \in Ops, Kill(o)
  PROVE  SwitchStep
  <1>1. UNCHANGED <<journal, file, jdisk, fdisk>> /\ change' = change
    BY DEF Kill, fileVars, jourVars, ownerVars
  <1>2. pc' = [pc EXCEPT ![o] = "dead"] /\ pc \in [Procs -> Steps]
    BY DEF Kill, Goto, TypeOK
  <1>3. change[o] \notin {"Committed", "RolledBack", "RecoveryRequired"}
    BY DEF Kill, IInv, DoneInv
  <1>4. Outcome(o) = "open"
    BY <1>3, OutcomeOf DEF Kill
  <1>5. Outcome(o)' = "unknown"
    BY <1>1, <1>2, <1>3, OutcomeNext DEF Procs
  <1>6. \A q \in Ops \ {o} : Outcome(q)' = Outcome(q)
    BY <1>1, <1>2, OutcomeKept DEF Procs
  <1> QED BY <1>1, <1>4, <1>5, <1>6, StorageSame, Ends

\* The supervisor, systemd and the clocks.
LEMMA EnvironmentStep ==
  ASSUME TypeOK, IInv,
         \/ SupervisorTick \/ SupervisorDies \/ SupervisorStarts \/ JobRuns
         \/ \E suspended \in BOOLEAN : ClockTick(suspended)
  PROVE  SwitchStep
  <1>1. UNCHANGED <<journal, file, jdisk, fdisk>> /\ change' = change
    BY DEF SupervisorTick, SupervisorDies, SupervisorStarts, JobRuns, ClockTick, fileVars,
       jourVars, ownerVars
  <1>2. \A q \in Ops : pc'[q] = pc[q]
    BY JournalAssumption DEF SupervisorTick, SupervisorDies, SupervisorStarts, JobRuns,
       ClockTick, Goto, TypeOK, Procs
  <1>3. \A q \in Ops : Outcome(q)' = Outcome(q)
    BY <1>1, <1>2, OutcomeKept
  <1> QED BY <1>1, <1>3, StorageSame, Invisible

\* A power loss takes the board to one of the possible configurations.
LEMMA PowerLossStep ==
  ASSUME TypeOK, IInv, PowerLoss
  PROVE  SwitchStep
  <1> DEFINE lost == {q \in Ops : Outcome(q) = "open" /\ pc'[q] = "dead"}
  <1>1. PICK f \in fdisk : file' = f /\ fdisk' = {f}
    BY DEF PowerLoss, FilePowerLoss
  <1>2. PICK r \in jdisk : journal' = r /\ jdisk' = {r}
    BY DEF PowerLoss, JournalPowerLoss
  <1>3. Settled(journal, file)' = Settled(r, f)
    BY <1>1, <1>2 DEF Settled
  <1>4. Settled(journal, file)' \in {Settled(j, g) : j \in jdisk, g \in fdisk}
    BY <1>1, <1>2, <1>3
  <1>5. {Settled(j, g) : j \in jdisk, g \in fdisk}' = {Settled(journal, file)'}
    BY <1>1, <1>2, <1>3
  <1>6. \A q \in Ops : Outcome(q)' = IF q \in lost THEN "unknown" ELSE Outcome(q)
    <2> SUFFICES ASSUME NEW q \in Ops
                 PROVE  Outcome(q)' = IF q \in lost THEN "unknown" ELSE Outcome(q)
      OBVIOUS
    <2>1. /\ change' = change
          /\ pc'[q] = IF pc[q] \in {"idle", "done"} THEN pc[q] ELSE "dead"
      BY JournalAssumption DEF PowerLoss, ownerVars, Procs
    <2>2. CASE pc[q] \in {"idle", "done", "dead"}
      <3>1. pc'[q] = pc[q] /\ change'[q] = change[q]
        BY <2>1, <2>2
      <3>2. Outcome(q)' = Outcome(q)
        BY <3>1, OutcomeKept
      <3>3. q \in lost => FALSE
        BY <2>2, <3>1, OutcomeOf DEF IInv, DoneInv
      <3> QED BY <3>2, <3>3
    <2>3. CASE pc[q] \notin {"idle", "done", "dead"}
      <3>1. change[q] \notin {"Committed", "RolledBack", "RecoveryRequired"}
        BY <2>3 DEF IInv, DoneInv
      <3>2. Outcome(q) = "open"
        BY <2>3, <3>1, OutcomeOf
      <3>3. pc'[q] = "dead" /\ Outcome(q)' = "unknown"
        BY <2>1, <2>3, <3>1, OutcomeNext
      <3> QED BY <3>2, <3>3
    <2> QED BY <2>2, <2>3
  <1>7. Switch!PowerLoss
    <2>1. lost \in SUBSET {q \in Ops : [x \in Ops |-> Outcome(x)][q] = "open"}
      OBVIOUS
    <2> HIDE DEF lost
    <2>2. [q \in Ops |-> Outcome(q)]' =
            [q \in Ops |-> IF q \in lost THEN "unknown" ELSE [x \in Ops |-> Outcome(x)][q]]
      BY <1>6
    <2> QED BY <1>4, <1>5, <2>1, <2>2 DEF Switch!PowerLoss
  <1> QED BY <1>7 DEF SwitchStep, Switch!Next

\* At the start nothing is tentative and nobody has reported.
LEMMA SwitchInit ==
  ASSUME Init
  PROVE  Switch!Init
  <1>1. Settled(journal, file) = file /\ file \in Files
    BY DEF Init, NoRecord, Settled
  <1>2. {Settled(r, f) : r \in jdisk, f \in fdisk} = {Settled(journal, file)}
    BY DEF Init
  <1>3. [o \in Ops |-> Outcome(o)] = [o \in Ops |-> "open"]
    <2>1. \A o \in Ops : Outcome(o) = "open"
      BY OutcomeOf DEF Init, Procs
    <2> QED BY <2>1
  <1> QED BY <1>1, <1>2, <1>3 DEF Switch!Init

\* Every step of the protocol is a step of the switch or invisible to it.
LEMMA StepSimulated ==
  ASSUME TypeOK, IInv, [Next]_vars
  PROVE  SwitchStep
  <1>1. CASE UNCHANGED vars
    <2>1. /\ UNCHANGED <<journal, file, jdisk, fdisk>>
          /\ \A q \in Ops : change'[q] = change[q] /\ pc'[q] = pc[q]
      BY <1>1 DEF vars, fileVars, jourVars, ownerVars
    <2> QED BY <2>1, StorageSame, OutcomeKept, Invisible
  <1>2. CASE Next
    BY <1>2, QuietStep, BeginSaveStep, BeginSyncStep, ReplaceStep, CommitSaveStep,
       CommitSyncStep, RollbackStep, KillStep, RestoreFileStep, RestoredSaveStep,
       ReconfigureStep, RestoreEnds, EnvironmentStep, PowerLossStep
       DEF Next, OwnerStep, RestoreStep, RestoreFailure
  <1> QED BY <1>1, <1>2

\* The journal and the file together are one atomic register: whatever the
\* owners, the supervisor, the failures and the power losses do to the two
\* files, the board behaves like the switch of WifiSwitch.
THEOREM SwitchRefined == Spec => ImplementsSwitch
  <1>1. Init => Switch!Init
    BY SwitchInit
  <1>2. TypeOK /\ IInv /\ [Next]_vars =>
          [Switch!Next]_<<Settled(journal, file),
                          {Settled(r, f) : r \in jdisk, f \in fdisk},
                          [o \in Ops |-> Outcome(o)]>>
    BY StepSimulated DEF SwitchStep, Possible, Outcomes
  <1>3. Spec => [](TypeOK /\ IInv)
    BY InvariantCorrect
  <1> QED BY <1>1, <1>2, <1>3, PTL DEF Spec, ImplementsSwitch, Switch!Spec

-----------------------------------------------------------------------------
(* The DHCPv6 policy of the managed file *)

\* The candidate of a claimed transaction has the policy of its backup.
PolicyInv ==
  \A o \in Ops : owns[o] /\ rec[o].prev # Absent => cand[o].dhcp6 = rec[o].prev.dhcp6

\* prepare() establishes PolicyInv for its transaction, from the file it backs
\* up, and nothing touches candidate, record or claim afterwards.
LEMMA PolicyStep ==
  ASSUME TypeOK, IInv, PolicyInv, [Next]_vars
  PROVE  PolicyInv'
  <1> USE DEF ownerVars, fileVars, jourVars, clockVars, netVars
  <1>1. ASSUME NEW o \in Ops, NEW net \in Nets, Start(o, net)
        PROVE  PolicyInv'
    <2>1. ~owns[o]
      BY <1>1 DEF Start, IInv, RecInv
    <2> QED BY <1>1, <2>1 DEF Start, PolicyInv, TypeOK
  <1>2. ASSUME NEW o \in Ops, PrepareOpen(o)
        PROVE  PolicyInv'
    <2>1. rec'[o].prev = file /\ cand'[o] = Draft(cand[o].net, file)
      BY <1>2 DEF PrepareOpen, TypeOK
    <2>2. file # Absent => cand'[o].dhcp6 = file.dhcp6
      BY <2>1 DEF Draft
    <2>3. \A q \in Ops \ {o} : rec'[q] = rec[q] /\ cand'[q] = cand[q] /\ owns'[q] = owns[q]
      BY <1>2 DEF PrepareOpen, TypeOK
    <2> QED BY <2>1, <2>2, <2>3 DEF PolicyInv
  <1>3. ASSUME UNCHANGED <<owns, cand, rec>>
        PROVE  PolicyInv'
    BY <1>3 DEF PolicyInv
  <1>4. ASSUME NEW o \in Ops, OwnerStep(o), ~PrepareOpen(o)
        PROVE  UNCHANGED <<owns, cand, rec>>
    BY <1>4 DEF OwnerStep, BeginSave, BeginSync, ActivateOpen, Replace, ReplaceSync, Apply,
       CommitOpen, CommitSave, CommitSync, CallFails, ApplyFails, RollbackNothing,
       RollbackOpen, RollbackAlready, RollbackFails, Report
  <1>5. ASSUME NEW p \in Procs, RestoreStep(p) \/ RestoreFailure(p)
        PROVE  UNCHANGED <<owns, cand, rec>>
    BY <1>5 DEF RestoreStep, RestoreFailure, RestoreFile, RestoreFileSync, Reconfigure,
       RestoredSave, RestoredSync, RestoreFails, ReconfigureFails, RestoreReturns, Report
  <1>6. ASSUME NEW o \in Ops,
               Confirm(o) \/ Revert(o) \/ Kill(o) \/ \E ready \in BOOLEAN : Tick(o, ready)
        PROVE  UNCHANGED <<owns, cand, rec>>
    BY <1>6 DEF Confirm, Revert, Kill, Tick
  <1>7. ASSUME \/ SupervisorTick \/ SupervisorDies \/ SupervisorStarts \/ JobRuns
               \/ \E suspended \in BOOLEAN : ClockTick(suspended)
               \/ PowerLoss \/ UNCHANGED vars
        PROVE  UNCHANGED <<owns, cand, rec>>
    BY <1>7 DEF SupervisorTick, SupervisorDies, SupervisorStarts, JobRuns, ClockTick,
       PowerLoss, vars
  <1> QED BY <1>1, <1>2, <1>3, <1>4, <1>5, <1>6, <1>7 DEF Next

\* All the files that may be there during one transaction carry one policy.
LEMMA OnePolicy ==
  ASSUME TypeOK, IInv, PolicyInv, journal.phase = "Pending",
         NEW f, NEW g, f # Absent, g # Absent,
         {f, g} \subseteq {journal.prev, cand[journal.txn]}
  PROVE  f.dhcp6 = g.dhcp6
  <1>1. /\ journal.txn \in Ops /\ owns[journal.txn] /\ journal = rec[journal.txn]
    BY DEF IInv, DiskInv
  <1>2. journal.prev # Absent => cand[journal.txn].dhcp6 = journal.prev.dhcp6
    BY <1>1 DEF PolicyInv
  <1>3. \/ f = g
        \/ journal.prev # Absent /\ {f, g} = {journal.prev, cand[journal.txn]}
    OBVIOUS
  <1> QED BY <1>2, <1>3

\* The file changes only between contents of one transaction.
LEMMA FileStaysInTransaction ==
  ASSUME TypeOK, IInv, [Next]_vars, file' # file
  PROVE  /\ journal.phase = "Pending"
         /\ {file, file'} \subseteq {journal.prev, cand[journal.txn]}
  <1> USE DEF ownerVars, fileVars, jourVars, clockVars, netVars
  <1>1. file \in fdisk /\ journal \in jdisk
    BY DEF IInv, DiskInv
  <1>2. journal.phase = "Pending" => fdisk \subseteq {journal.prev, cand[journal.txn]}
    BY <1>1 DEF IInv, FileInv
  <1>3. journal.phase # "Pending" => fdisk = {file}
    BY <1>1 DEF IInv, FileInv, TypeOK, Records, Phases
  <1>4. ASSUME NEW o \in Ops, OwnerStep(o)
        PROVE  journal.phase = "Pending" /\ file' = cand[journal.txn]
    <2>1. Replace(o)
      BY <1>4 DEF OwnerStep, PrepareOpen, BeginSave, BeginSync, ActivateOpen, ReplaceSync,
         FileSync, Apply, CommitOpen, CommitSave, CommitSync, CallFails, ApplyFails,
         RollbackNothing, RollbackOpen, RollbackAlready, RollbackFails
    <2> QED BY <2>1 DEF Replace, FileRename, IInv, OwnerInv, Holds
  <1>5. ASSUME NEW p \in Procs, RestoreStep(p) \/ RestoreFailure(p)
        PROVE  journal.phase = "Pending" /\ file' = journal.prev
    <2>1. RestoreFile(p)
      BY <1>5 DEF RestoreStep, RestoreFailure, RestoreFileSync, FileSync, Reconfigure,
         RestoredSave, RestoredSync, RestoreFails, ReconfigureFails
    <2> QED BY <2>1 DEF RestoreFile, FileRename, IInv, RestoreInv, RestoreSteps
  <1>6. ASSUME PowerLoss
        PROVE  file' \in fdisk
    BY <1>6 DEF PowerLoss, FilePowerLoss
  <1>7. ASSUME NEW o \in Ops,
               \/ Confirm(o) \/ Revert(o) \/ Kill(o)
               \/ \E ready \in BOOLEAN : Tick(o, ready)
               \/ \E net \in Nets : Start(o, net)
        PROVE  FALSE
    BY <1>7 DEF Confirm, Revert, Kill, Tick, Start
  <1>8. ASSUME \/ SupervisorTick \/ SupervisorDies \/ SupervisorStarts \/ JobRuns
               \/ \E suspended \in BOOLEAN : ClockTick(suspended)
               \/ UNCHANGED vars
        PROVE  FALSE
    BY <1>8 DEF SupervisorTick, SupervisorDies, SupervisorStarts, JobRuns, ClockTick, vars
  <1> QED BY <1>1, <1>2, <1>3, <1>4, <1>5, <1>6, <1>7, <1>8 DEF Next

\* The DHCPv6 policy of the managed file survives every change, rollback and
\* power loss: prepare() inherits it, and whatever replaces the file belongs to
\* the transaction that inherited it.
THEOREM PolicyKept == Spec => PolicyPreserved
  <1>1. Init => PolicyInv
    BY DEF Init, PolicyInv
  <1>2. TypeOK /\ IInv /\ PolicyInv /\ [Next]_vars => PolicyInv'
    BY PolicyStep
  <1>3. TypeOK /\ IInv /\ PolicyInv /\ [Next]_vars =>
          [file # Absent /\ file' # Absent => file'.dhcp6 = file.dhcp6]_file
    <2> SUFFICES ASSUME TypeOK, IInv, PolicyInv, [Next]_vars, file' # file,
                        file # Absent, file' # Absent
                 PROVE  file'.dhcp6 = file.dhcp6
      OBVIOUS
    <2> QED BY FileStaysInTransaction, OnePolicy
  <1>4. Spec => [](TypeOK /\ IInv)
    BY InvariantCorrect
  <1> QED BY <1>1, <1>2, <1>3, <1>4, PTL DEF Spec, PolicyPreserved
=============================================================================
