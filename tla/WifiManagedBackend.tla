------------------------- MODULE WifiManagedBackend -------------------------
(***************************************************************************)
(* The owner of a Wi-Fi change: WifiChange (common/src/wifi_change.cpp)    *)
(* driving WifiManagedBackend (server/src/wifi_managed_backend.cpp) and    *)
(* the worker functions of server/src/wifi_recovery_worker.cpp.            *)
(*                                                                         *)
(* Each object is single use, so a transaction o \in Ops is the object.    *)
(* pc[o] is the next effect of the call in progress.  Calls are cut where  *)
(* something becomes visible to another process or to a power loss: at     *)
(* the flock, at every renameat, at every fsync of a directory and at the  *)
(* systemctl call.  prepared_, activated_, committed_ and restored_ are    *)
(* functions of pc and change and are not kept separately.                 *)
(***************************************************************************)
EXTENDS WifiJournal

CONSTANTS
  Lifetime,  \* length of the confirmation window (90 s in the code)
  MaxNow     \* bound: the clock of one boot stops here

VARIABLES
  pc,        \* next step of each owner, and of the supervisor
  change,    \* WifiChangeState of each owner
  owns,      \* transaction_ is set: rollback has something to cancel
  cand,      \* candidate_
  rec,       \* the record prepare() built
  timeout,   \* WifiChange::deadline_, on the steady clock
  steady,    \* std::chrono::steady_clock, which stops during suspend
  live,      \* configuration the wpa service runs with (Absent: stopped)
  job        \* a systemd job for the wpa service is still outstanding

ASSUME LifetimeAssumption == Lifetime \in Nat \ {0} /\ MaxNow \in Nat

ownerVars == <<change, owns, cand, rec, timeout>>
fileVars  == <<file, fdisk>>
jourVars  == <<journal, jdisk>>
clockVars == <<boot, now, steady>>
netVars   == <<live, job>>

ChangeStates == {"Idle", "Connecting", "AwaitingConfirmation", "Committed",
                 "RolledBack", "RecoveryRequired"}
\* Steps of prepare(), activate() and commit() that run under the journal lock.
LockedCalls  == {"begin", "beginSync", "replace", "replaceSync", "apply",
                 "commitSave", "commitSync"}
Calls        == LockedCalls \cup {"prepare", "activate", "confirm"}
\* Steps of restore_pending(), under the journal lock as well.
RestoreSteps == {"restoreFile", "restoreFileSync", "reconfigure",
                 "restoredSave", "restoredSync"}
Steps        == Calls \cup RestoreSteps
                  \cup {"idle", "watch", "revert", "done", "dead", "down"}

Goto(p, step) == pc' = [pc EXCEPT ![p] = step]

\* wifi_recovery_supervisor_ready(): the supervisor answers only between ticks.
watchdog_ready == pc[Supervisor] = "idle"

\* assess_wifi_link() answers Ready for the SSID of the target, whatever PSK
\* and DHCPv6 policy the running configuration has.
LinkReady(o) == live # Absent /\ SsidOf[live.net] = SsidOf[cand[o].net]

-----------------------------------------------------------------------------
(* WifiChange::start and WifiManagedBackend::prepare *)

\* Wrong on purpose: candidate_ is not filled in.
Start_NoCandidate(o, net) ==
  /\ pc[o] = "idle"
  /\ change'  = [change EXCEPT ![o] = "Connecting"]
  /\ timeout' = [timeout EXCEPT ![o] = steady + Lifetime]
  /\ Goto(o, "prepare")
  /\ UNCHANGED <<lock, owns, cand, rec, fileVars, jourVars, clockVars, netVars>>

\* start() with Ethernet available: ticket and deadline, then prepare().  A
\* start() refused earlier leaves the object Idle and is not a step here.
Start(o, net) ==
  /\ pc[o] = "idle"
  /\ change'  = [change EXCEPT ![o] = "Connecting"]
  /\ timeout' = [timeout EXCEPT ![o] = steady + Lifetime]
  /\ cand'    = [cand EXCEPT ![o] = Draft(net, Absent)]
  /\ Goto(o, "prepare")
  /\ UNCHANGED <<lock, owns, rec, fileVars, jourVars, clockVars, netVars>>

\* prepare() takes the lock, refuses a pending record, backs the file up,
\* inherits its DHCPv6 policy and claims the transaction BEFORE begin().
PrepareOpen(o) ==
  /\ pc[o] = "prepare"
  /\ watchdog_ready
  /\ Acquire(o)
  /\ ~Unresolved(journal)
  /\ now + Lifetime <= MaxNow
  /\ cand' = [cand EXCEPT ![o] = Draft(cand[o].net, file)]
  /\ rec'  = [rec EXCEPT ![o] = [phase |-> "Pending", txn |-> o, boot |-> boot,
                                 deadline |-> now + Lifetime, prev |-> file]]
  /\ owns' = [owns EXCEPT ![o] = TRUE]
  /\ Goto(o, "begin")
  /\ UNCHANGED <<change, timeout, fileVars, jourVars, clockVars, netVars>>

\* begin(): the new record replaces a resolved one.
BeginSave(o) ==
  /\ pc[o] = "begin"
  /\ ~Unresolved(journal)
  /\ JournalRename(rec[o])
  /\ Goto(o, "beginSync")
  /\ UNCHANGED <<lock, ownerVars, fileVars, clockVars, netVars>>

\* Wrong on purpose: prepare() returns before the directory is synchronised.
BeginSync_NoFsync(o) ==
  /\ pc[o] = "beginSync"
  /\ watchdog_ready
  /\ Current(rec[o], o)
  /\ Release(o)
  /\ Goto(o, "activate")
  /\ UNCHANGED <<ownerVars, fileVars, jourVars, clockVars, netVars>>

\* The record is durable, the supervisor still answers and the deadline has
\* not passed: prepare() returns true and unlocks the journal.
BeginSync(o) ==
  /\ pc[o] = "beginSync"
  /\ JournalSync
  /\ watchdog_ready
  /\ Current(rec[o], o)
  /\ Release(o)
  /\ Goto(o, "activate")
  /\ UNCHANGED <<ownerVars, fileVars, clockVars, netVars>>

-----------------------------------------------------------------------------
(* WifiManagedBackend::activate *)

ActivateOpen(o) ==
  /\ pc[o] = "activate"
  /\ watchdog_ready
  /\ Acquire(o)
  /\ Current(journal, o)
  /\ file = journal.prev
  /\ Goto(o, "replace")
  /\ UNCHANGED <<ownerVars, fileVars, jourVars, clockVars, netVars>>

Replace(o) ==
  /\ pc[o] = "replace"
  /\ FileRename(cand[o])
  /\ Goto(o, "replaceSync")
  /\ UNCHANGED <<lock, ownerVars, jourVars, clockVars, netVars>>

ReplaceSync(o) ==
  /\ pc[o] = "replaceSync"
  /\ FileSync
  /\ Goto(o, "apply")
  /\ UNCHANGED <<lock, ownerVars, jourVars, clockVars, netVars>>

\* apply_target() restarts the service, which reads the file that is there.
Apply(o) ==
  /\ pc[o] = "apply"
  /\ file = cand[o]
  /\ live' = file
  /\ job'  = FALSE
  /\ Current(journal, o)
  /\ Release(o)
  /\ Goto(o, "watch")
  /\ UNCHANGED <<ownerVars, fileVars, jourVars, clockVars>>

-----------------------------------------------------------------------------
(* WifiChange::tick, confirm and cancel *)

\* A tick that does not revert: the link is Ready or still coming up.
Tick(o, ready) ==
  /\ pc[o] = "watch"
  /\ steady < timeout[o]
  /\ watchdog_ready
  /\ ready => LinkReady(o)
  /\ change' = [change EXCEPT ![o] = IF ready THEN "AwaitingConfirmation"
                                             ELSE "Connecting"]
  /\ UNCHANGED <<pc, lock, owns, cand, rec, timeout, fileVars, jourVars,
                 clockVars, netVars>>

\* Wrong on purpose: confirm() relies on the checks of commit() and does not tick.
Confirm_NoTick(o) ==
  /\ pc[o] = "watch"
  /\ Goto(o, "confirm")
  /\ UNCHANGED <<lock, ownerVars, fileVars, jourVars, clockVars, netVars>>

\* confirm() with the right ticket ticks first and then commits.
Confirm(o) ==
  /\ pc[o] = "watch"
  /\ steady < timeout[o]
  /\ watchdog_ready
  /\ LinkReady(o)
  /\ change' = [change EXCEPT ![o] = "AwaitingConfirmation"]
  /\ Goto(o, "confirm")
  /\ UNCHANGED <<lock, owns, cand, rec, timeout, fileVars, jourVars,
                 clockVars, netVars>>

\* tick() reverts on timeout, lost Ethernet, a failed probe or a silent
\* supervisor; cancel() and the destructor revert at any time.
Revert(o) ==
  /\ pc[o] = "watch"
  /\ Goto(o, "revert")
  /\ UNCHANGED <<lock, ownerVars, fileVars, jourVars, clockVars, netVars>>

-----------------------------------------------------------------------------
(* WifiManagedBackend::commit, wifi_managed_commit *)

\* Lock, record, file, live checks, then the clock a second time.
CommitOpen(o) ==
  /\ pc[o] = "confirm"
  /\ Acquire(o)
  /\ Current(journal, o)
  /\ file = cand[o]
  /\ watchdog_ready
  /\ LinkReady(o)
  /\ Goto(o, "commitSave")
  /\ UNCHANGED <<ownerVars, fileVars, jourVars, clockVars, netVars>>

\* The clock may pass the deadline between its last reading and the rename.
CommitSave(o) ==
  /\ pc[o] = "commitSave"
  /\ JournalRename(Resolved(journal, "Committed"))
  /\ Goto(o, "commitSync")
  /\ UNCHANGED <<lock, ownerVars, fileVars, clockVars, netVars>>

\* Wrong on purpose: the commit is reported before it is durable.
CommitSync_NoFsync(o) ==
  /\ pc[o] = "commitSync"
  /\ change' = [change EXCEPT ![o] = "Committed"]
  /\ Release(o)
  /\ Goto(o, "done")
  /\ UNCHANGED <<owns, cand, rec, timeout, fileVars, jourVars, clockVars, netVars>>

\* save() has returned: the commit is durable and is reported.
CommitSync(o) ==
  /\ pc[o] = "commitSync"
  /\ JournalSync
  /\ change' = [change EXCEPT ![o] = "Committed"]
  /\ Release(o)
  /\ Goto(o, "done")
  /\ UNCHANGED <<owns, cand, rec, timeout, fileVars, clockVars, netVars>>

\* Any check, lock attempt, rename or fsync of prepare(), activate() or
\* commit() fails: the journal object is destroyed and revert() follows.
CallFails(o) ==
  /\ pc[o] \in Calls
  /\ Release(o)
  /\ Goto(o, "revert")
  /\ UNCHANGED <<ownerVars, fileVars, jourVars, clockVars, netVars>>

\* systemctl fails or is killed after 20 s; the service may have restarted
\* already, or the job may still run later.
ApplyFails(o) ==
  /\ pc[o] = "apply"
  /\ live' \in {live, file}
  /\ job'  \in {job, TRUE}
  /\ Release(o)
  /\ Goto(o, "revert")
  /\ UNCHANGED <<ownerVars, fileVars, jourVars, clockVars>>

-----------------------------------------------------------------------------
(* WifiChange::revert, WifiManagedBackend::rollback, wifi_managed_cancel *)

\* The state revert() reports; the lock is free again.
Report(o, state) ==
  /\ change' = [change EXCEPT ![o] = state]
  /\ Goto(o, "done")
  /\ UNCHANGED <<owns, cand, rec, timeout>>

\* prepare() failed before it claimed a transaction: nothing to cancel.
RollbackNothing(o) ==
  /\ pc[o] = "revert"
  /\ ~owns[o]
  /\ Report(o, "RolledBack")
  /\ UNCHANGED <<lock, fileVars, jourVars, clockVars, netVars>>

\* cancel() finds the transaction pending and starts to restore.
RollbackOpen(o) ==
  /\ pc[o] = "revert"
  /\ owns[o]
  /\ Acquire(o)
  /\ Cancellable(journal, o)
  /\ journal.phase = "Pending"
  /\ Goto(o, "restoreFile")
  /\ UNCHANGED <<ownerVars, fileVars, jourVars, clockVars, netVars>>

\* The supervisor was faster: RecoveryOutcome::Nothing.
RollbackAlready(o) ==
  /\ pc[o] = "revert"
  /\ owns[o]
  /\ lock = Nobody
  /\ Cancellable(journal, o)
  /\ journal.phase = "Restored"
  /\ Report(o, "RolledBack")
  /\ UNCHANGED <<lock, fileVars, jourVars, clockVars, netVars>>

\* Lock busy, journal unreadable, or not this transaction's to cancel.
RollbackFails(o) ==
  /\ pc[o] = "revert"
  /\ owns[o]
  /\ Report(o, "RecoveryRequired")
  /\ UNCHANGED <<lock, fileVars, jourVars, clockVars, netVars>>

-----------------------------------------------------------------------------
(* restore_managed and restore_pending, run by an owner or the supervisor *)

\* Wrong on purpose: a file that did not exist before is not removed.
RestoreFile_NoUnlink(p) ==
  /\ pc[p] = "restoreFile"
  /\ IF journal.prev = Absent THEN UNCHANGED fileVars ELSE FileRename(journal.prev)
  /\ Goto(p, "restoreFileSync")
  /\ UNCHANGED <<lock, ownerVars, jourVars, clockVars, netVars>>

RestoreFile(p) ==
  /\ pc[p] = "restoreFile"
  /\ FileRename(journal.prev)
  /\ Goto(p, "restoreFileSync")
  /\ UNCHANGED <<lock, ownerVars, jourVars, clockVars, netVars>>

\* Wrong on purpose: the restored file is not synchronised.
RestoreFileSync_NoFsync(p) ==
  /\ pc[p] = "restoreFileSync"
  /\ Goto(p, "reconfigure")
  /\ UNCHANGED <<lock, ownerVars, fileVars, jourVars, clockVars, netVars>>

RestoreFileSync(p) ==
  /\ pc[p] = "restoreFileSync"
  /\ FileSync
  /\ Goto(p, "reconfigure")
  /\ UNCHANGED <<lock, ownerVars, jourVars, clockVars, netVars>>

\* restore_network(): restart with the restored file, or stop without one.
Reconfigure(p) ==
  /\ pc[p] = "reconfigure"
  /\ live' = file
  /\ job'  = FALSE
  /\ Goto(p, "restoredSave")
  /\ UNCHANGED <<lock, ownerVars, fileVars, jourVars, clockVars>>

RestoredSave(p) ==
  /\ pc[p] = "restoredSave"
  /\ JournalRename(Resolved(journal, "Restored"))
  /\ Goto(p, "restoredSync")
  /\ UNCHANGED <<lock, ownerVars, fileVars, clockVars, netVars>>

\* The caller of restore_pending() learns how it ended.
RestoreReturns(p, state) ==
  IF p = Supervisor THEN Goto(p, "idle") /\ UNCHANGED ownerVars
                    ELSE Report(p, state)

RestoredSync(p) ==
  /\ pc[p] = "restoredSync"
  /\ JournalSync
  /\ Release(p)
  /\ RestoreReturns(p, "RolledBack")
  /\ UNCHANGED <<fileVars, clockVars, netVars>>

\* A step of the restoration fails: the pending record is kept, except when
\* only the last fsync failed.
RestoreFails(p) ==
  /\ pc[p] \in RestoreSteps
  /\ Release(p)
  /\ RestoreReturns(p, "RecoveryRequired")
  /\ UNCHANGED <<fileVars, jourVars, clockVars, netVars>>

\* Wrong on purpose: the result of restore_network() is ignored.
ReconfigureFails_Ignored(p) ==
  /\ pc[p] = "reconfigure"
  /\ Goto(p, "restoredSave")
  /\ UNCHANGED <<lock, ownerVars, fileVars, jourVars, clockVars, netVars>>

\* restore_network() fails or times out; its systemd job may still run later.
ReconfigureFails(p) ==
  /\ pc[p] = "reconfigure"
  /\ live' \in {live, file}
  /\ job'  \in {job, TRUE}
  /\ Release(p)
  /\ RestoreReturns(p, "RecoveryRequired")
  /\ UNCHANGED <<fileVars, jourVars, clockVars>>
=============================================================================
