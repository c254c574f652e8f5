---------------------------- MODULE WifiRecovery ----------------------------
(***************************************************************************)
(* The complete Wi-Fi change transaction: any number of owners, the        *)
(* independent recovery supervisor (server/src/wifi_recovery_supervisor.   *)
(* cpp), the clocks, process death and power loss.                         *)
(***************************************************************************)
EXTENDS WifiManagedBackend

CONSTANT MaxBoots  \* bound: number of power losses

ASSUME BootsAssumption == MaxBoots \in Nat

vars == <<lock, pc, ownerVars, fileVars, jourVars, clockVars, netVars>>

Init ==
  /\ lock    = Nobody
  /\ file \in Files
  /\ fdisk   = {file}
  /\ journal = NoRecord
  /\ jdisk   = {NoRecord}
  /\ boot    = 0
  /\ now     = 0
  /\ steady  = 0
  /\ live    = file
  /\ job     = FALSE
  /\ pc      = [p \in Procs |-> "idle"]
  /\ change  = [o \in Ops |-> "Idle"]
  /\ owns    = [o \in Ops |-> FALSE]
  /\ cand    = [o \in Ops |-> Absent]
  /\ rec     = [o \in Ops |-> NoRecord]
  /\ timeout = [o \in Ops |-> 0]

-----------------------------------------------------------------------------
(* run_wifi_recovery_supervisor *)

\* A tick that finds a due record; any other tick (nothing pending, still
\* waiting, lock busy) changes nothing and is repeated 250 ms later.
SupervisorTick ==
  /\ pc[Supervisor] = "idle"
  /\ Acquire(Supervisor)
  /\ Due(journal)
  /\ Goto(Supervisor, "restoreFile")
  /\ UNCHANGED <<ownerVars, fileVars, jourVars, clockVars, netVars>>

\* The supervisor exits or is killed; the kernel drops its locks.
SupervisorDies ==
  /\ pc[Supervisor] # "down"
  /\ Release(Supervisor)
  /\ Goto(Supervisor, "down")
  /\ job' \in IF pc[Supervisor] = "reconfigure" THEN {job, TRUE} ELSE {job}
  /\ UNCHANGED <<ownerVars, fileVars, jourVars, clockVars, live>>

\* Restart=on-failure.
SupervisorStarts ==
  /\ pc[Supervisor] = "down"
  /\ Goto(Supervisor, "idle")
  /\ UNCHANGED <<lock, ownerVars, fileVars, jourVars, clockVars, netVars>>

-----------------------------------------------------------------------------
(* The environment *)

\* SIGKILL of the helper: no destructor runs.
Kill(o) ==
  /\ pc[o] \notin {"idle", "done", "dead"}
  /\ Release(o)
  /\ Goto(o, "dead")
  /\ job' \in IF pc[o] \in {"apply", "reconfigure"} THEN {job, TRUE} ELSE {job}
  /\ UNCHANGED <<ownerVars, fileVars, jourVars, clockVars, live>>

\* The outstanding systemd job runs and reads the file that is there now.
JobRuns ==
  /\ job
  /\ job'  = FALSE
  /\ live' = file
  /\ UNCHANGED <<lock, pc, ownerVars, fileVars, jourVars, clockVars>>

\* CLOCK_BOOTTIME counts suspend, the steady clock does not.
ClockTick(suspended) ==
  /\ now < MaxNow
  /\ now'    = now + 1
  /\ steady' = IF suspended THEN steady ELSE steady + 1
  /\ UNCHANGED <<lock, pc, ownerVars, fileVars, jourVars, netVars, boot>>

\* Power is lost: every process dies, unsynchronised renames may be lost, the
\* clocks restart, and systemd starts the wpa service and the supervisor.
PowerLoss ==
  /\ boot < MaxBoots
  /\ boot'   = boot + 1
  /\ now'    = 0
  /\ steady' = 0
  /\ lock'   = Nobody
  /\ FilePowerLoss
  /\ JournalPowerLoss
  /\ live'   = Absent
  /\ job'    = TRUE
  /\ pc'     = [p \in Procs |-> IF p = Supervisor THEN "down"
                                ELSE IF pc[p] \in {"idle", "done"} THEN pc[p]
                                ELSE "dead"]
  /\ UNCHANGED ownerVars

-----------------------------------------------------------------------------

RestoreStep(p) ==
  \/ RestoreFile(p)
  \/ RestoreFileSync(p)
  \/ Reconfigure(p)
  \/ RestoredSave(p)
  \/ RestoredSync(p)

RestoreFailure(p) ==
  \/ RestoreFails(p)
  \/ ReconfigureFails(p)

OwnerStep(o) ==
  \/ PrepareOpen(o)
  \/ BeginSave(o)
  \/ BeginSync(o)
  \/ ActivateOpen(o)
  \/ Replace(o)
  \/ ReplaceSync(o)
  \/ Apply(o)
  \/ CommitOpen(o)
  \/ CommitSave(o)
  \/ CommitSync(o)
  \/ CallFails(o)
  \/ ApplyFails(o)
  \/ RollbackNothing(o)
  \/ RollbackOpen(o)
  \/ RollbackAlready(o)
  \/ RollbackFails(o)

Next ==
  \/ \E o \in Ops : \/ \E net \in Nets : Start(o, net)
                    \/ \E ready \in BOOLEAN : Tick(o, ready)
                    \/ Confirm(o)
                    \/ Revert(o)
                    \/ OwnerStep(o)
                    \/ Kill(o)
  \/ \E p \in Procs : RestoreStep(p) \/ RestoreFailure(p)
  \/ SupervisorTick
  \/ SupervisorDies
  \/ SupervisorStarts
  \/ JobRuns
  \/ \E suspended \in BOOLEAN : ClockTick(suspended)
  \/ PowerLoss

Spec == Init /\ [][Next]_vars

\* An owner inside a call returns from it: every callback is bounded in time.
\* systemd restarts the supervisor, its loop ticks for ever, and the disk and
\* systemctl do not fail for ever, which strong fairness of each step says.
\* Nothing is assumed of the user, of tick() or of the owner staying alive.
Fairness ==
  /\ \A o \in Ops : WF_vars(OwnerStep(o)) /\ WF_vars(RestoreStep(o))
  /\ WF_vars(SupervisorStarts)
  /\ WF_vars(JobRuns)
  /\ WF_vars(ClockTick(FALSE))
  /\ SF_vars(SupervisorTick)
  /\ SF_vars(RestoreFile(Supervisor))
  /\ SF_vars(RestoreFileSync(Supervisor))
  /\ SF_vars(Reconfigure(Supervisor))
  /\ SF_vars(RestoredSave(Supervisor))

FairSpec == Spec /\ Fairness

-----------------------------------------------------------------------------

\* Every variable keeps its type.
TypeOK ==
  /\ lock \in Procs \cup {Nobody}
  /\ file \in Files
  /\ fdisk \in SUBSET Files
  /\ journal \in Records
  /\ jdisk \in SUBSET Records
  /\ boot \in Nat
  /\ now \in Nat
  /\ steady \in Nat
  /\ live \in Files
  /\ job \in BOOLEAN
  /\ pc \in [Procs -> Steps]
  /\ change \in [Ops -> ChangeStates]
  /\ owns \in [Ops -> BOOLEAN]
  /\ cand \in [Ops -> Files]
  /\ \A o \in Ops : pc[o] # "idle" => cand[o] \in Configs
  /\ rec \in [Ops -> Records]
  /\ timeout \in [Ops -> Nat]

\* Whatever a power loss leaves of the two directories, the configuration in
\* force before the transaction can be found: the managed file is uncertain, or
\* differs from its backup, only while every record that may survive is the
\* pending one holding that backup (the write order journal, file, service of
\* prepare/activate and of restore_pending).
CrashSafe ==
  \A r \in jdisk :
    IF r.phase = "Pending" THEN fdisk \subseteq {r.prev, cand[r.txn]}
                           ELSE fdisk = {file}

\* A change reported as committed can no longer be undone: no record that may
\* survive a power loss has the transaction unresolved, and until the next
\* transaction the candidate is the only file that can be there.
CommittedIsFinal ==
  \A o \in Ops : change[o] = "Committed" =>
    \A r \in jdisk : r.txn = o => r.phase = "Committed" /\ fdisk = {cand[o]}

\* A change reported as rolled back has its old file durably in place until the
\* next transaction begins.
\* A power loss may bring the pending record back (cancel() believes a Restored
\* record whose fsync failed); it is then due again, with nothing to undo.
RolledBackIsRestored ==
  \A o \in Ops : change[o] = "RolledBack" /\ owns[o] /\ journal.txn = o =>
    /\ journal.phase = "Restored" \/ Due(journal)
    /\ fdisk = {rec[o].prev}

\* However a change ends, with its owner killed or the power lost in any step of
\* it, it can turn out committed only if its owner was waiting for, or acting on,
\* the confirmation of a connection that was up: never a change that was still
\* connecting, and never one reported as rolled back although the save() of the
\* commit had failed half way (WifiChange::confirm, wifi_managed_cancel).
CommittedWasReady ==
  \A r \in jdisk : r.phase = "Committed" =>
    change[r.txn] \in {"AwaitingConfirmation", "Committed", "RecoveryRequired"}

\* Outside a pending transaction the service runs with the file that is there,
\* or a systemd job that will make it so is outstanding: neither a commit nor a
\* restoration is recorded before the service has been restarted.
ServiceFollowsFile ==
  journal.phase # "Pending" => live = file \/ job

\* An unresolved transaction is never overwritten by another one; it leaves the
\* journal only through its own resolution or because the power loss takes the
\* record back to what was durable.
PendingNotOverwritten ==
  [][journal.phase = "Pending" /\ boot' = boot =>
       journal'.txn = journal.txn]_journal

\* While a restoration is under way nothing else writes the journal or the
\* file, and it is a restoration of a pending transaction that is either due
\* or the owner's own.
RestoresOwnTransaction ==
  \A p \in Procs : pc[p] \in RestoreSteps \ {"restoredSync"} =>
    /\ lock = p
    /\ journal.phase = "Pending"
    /\ p \in Ops => journal.txn = p
    /\ p = Supervisor => Due(journal)

\* A pending transaction is resolved in the end even if its owner has died, hung
\* between two calls or lost its ticket: the supervisor alone suffices.
PendingResolved == journal.phase = "Pending" ~> journal.phase # "Pending"

\* The DHCPv6 policy of the managed file survives every change, rollback and
\* power loss.
PolicyPreserved ==
  [][file # Absent /\ file' # Absent => file'.dhcp6 = file.dhcp6]_file

-----------------------------------------------------------------------------
(* Refinement: the journal and the file together are one atomic register.    *)

\* The configuration a record and a file stand for.
Settled(r, f) == IF r.phase = "Pending" THEN r.prev ELSE f

Outcome(o) ==
  CASE change[o] = "Committed"        -> "committed"
    [] change[o] = "RolledBack"       -> "rolledBack"
    [] change[o] = "RecoveryRequired" -> "unknown"
    [] OTHER -> IF pc[o] = "dead" THEN "unknown" ELSE "open"

Switch == INSTANCE WifiSwitch WITH
  settled  <- Settled(journal, file),
  possible <- {Settled(r, f) : r \in jdisk, f \in fdisk},
  outcome  <- [o \in Ops |-> Outcome(o)]

\* Every step of the two-file protocol, every failure and every power loss is a
\* step of the atomic switch or invisible to it.
ImplementsSwitch == Switch!Spec
=============================================================================
