----------------------------- MODULE WifiMigration ----------------------------
(***************************************************************************)
(* deploy/apply_wifi_migration.py: the one-time move of the board's Wi-Fi  *)
(* profile, run over SSH, and the systemd timer that rolls it back after   *)
(* 150 seconds unless it was committed.                                    *)
(*                                                                         *)
(* Two processes may be in rollback() at once: the script itself, from its *)
(* exception handler, and the one the timer starts.  Only the first half   *)
(* of rollback() holds the lock.  put() writes path.encoder-stage, which   *)
(* must not exist, and renames it.                                         *)
(***************************************************************************)
EXTENDS Naturals

CONSTANTS
  ScriptKilled,  \* the script may be killed (its SSH session ends)
  KilledInPut,   \* ... also between the two halves of put()
  TimerEarly,    \* the timer may fire while the script is still working
  CommandsFail   \* systemctl may fail or time out during a rollback

MigrationAssumption ==
  /\ ScriptKilled \in BOOLEAN /\ KilledInPut \in BOOLEAN
  /\ TimerEarly \in BOOLEAN /\ CommandsFail \in BOOLEAN

Procs == {"apply", "timer"}

VARIABLES
  pc,        \* where each process is; "off" before, "end" or "failed" after
  lock,      \* who holds STATE/lock
  phase,     \* STATE/phase
  staged,    \* stage files on disk, by what they are for
  old, new, override,   \* the three files exist
  loaded,    \* systemd has the override in effect
  link,      \* the profile wpa_supplicant was last started with
  recovery,  \* encoder-wifi-recovery.service is enabled and active
  timer      \* "unset", "armed", "stopped" or "fired"

files == <<old, new, override>>
services == <<loaded, link, recovery>>
vars == <<pc, lock, phase, staged, files, services, timer>>

ApplySteps == {"arm", "lock", "new", "unlink", "override", "check", "reload", "restart",
               "probe", "enable", "commit", "commitStage", "commitPut", "stop"}
RollbackSteps == {"rb", "rbOldStage", "rbOldPut", "rbUnlink", "rbPhaseStage", "rbPhasePut",
                  "rbDisable", "rbReload", "rbRestart", "rbDoneStage", "rbDonePut"}

LockedSteps == {"new", "unlink", "override", "commitStage", "commitPut", "rbOldStage",
                "rbOldPut", "rbUnlink", "rbPhaseStage", "rbPhasePut"}

TypeOK ==
  /\ pc \in [Procs -> ApplySteps \cup RollbackSteps \cup {"off", "end", "failed", "killed"}]
  /\ lock \in Procs \cup {"nobody"}
  /\ \A p \in Procs : lock = p <=> pc[p] \in LockedSteps
  /\ phase \in {"pending", "restoring", "restored", "committed"}
  /\ staged \subseteq {"phase", "old"}
  /\ old \in BOOLEAN /\ new \in BOOLEAN /\ override \in BOOLEAN
  /\ loaded \in BOOLEAN /\ link \in {"old", "new", "none"} /\ recovery \in BOOLEAN
  /\ timer \in {"unset", "armed", "stopped", "fired"}

\* The checks have passed, STATE holds the original and phase is pending.
Init ==
  /\ pc = [p \in Procs |-> IF p = "apply" THEN "arm" ELSE "off"]
  /\ lock = "nobody" /\ phase = "pending" /\ staged = {}
  /\ old = TRUE /\ new = FALSE /\ override = FALSE
  /\ loaded = FALSE /\ link = "old" /\ recovery = FALSE
  /\ timer = "unset"

Go(p, from, to) == pc[p] = from /\ pc' = [pc EXCEPT ![p] = to]

-----------------------------------------------------------------------------
(* put(), in two halves. *)

Stage(p, from, to, what) ==
  /\ Go(p, from, to)
  /\ what \notin staged
  /\ staged' = staged \cup {what}

\* open('xb') finds the stage file: the exception ends the process, or sends
\* the script into its handler.
StageRefused(p, from, what) ==
  /\ what \in staged
  /\ Go(p, from, IF from \in ApplySteps THEN "rb" ELSE "failed")
  /\ lock' = IF lock = p THEN "nobody" ELSE lock
  /\ UNCHANGED <<phase, staged, files, services, timer>>

-----------------------------------------------------------------------------
(* apply() *)

Arm ==
  /\ \/ Go("apply", "arm", "lock") /\ timer' = "armed"
     \/ Go("apply", "arm", "failed") /\ UNCHANGED timer
  /\ UNCHANGED <<lock, phase, staged, files, services>>

\* Wrong on purpose: the phase is not read again under the lock.
ApplyLock_Bug ==
  /\ lock = "nobody" /\ Go("apply", "lock", "new") /\ lock' = "apply"
  /\ UNCHANGED <<phase, staged, files, services, timer>>

ApplyLock ==
  /\ lock = "nobody"
  /\ \/ phase = "pending" /\ Go("apply", "lock", "new") /\ lock' = "apply"
     \/ phase # "pending" /\ Go("apply", "lock", "rb") /\ UNCHANGED lock
  /\ UNCHANGED <<phase, staged, files, services, timer>>

PutNew ==
  /\ Go("apply", "new", "unlink") /\ new' = TRUE
  /\ UNCHANGED <<lock, phase, staged, old, override, services, timer>>

UnlinkOld ==
  /\ Go("apply", "unlink", "override") /\ old' = FALSE
  /\ UNCHANGED <<lock, phase, staged, new, override, services, timer>>

PutOverride ==
  /\ Go("apply", "override", "check") /\ override' = TRUE /\ lock' = "nobody"
  /\ UNCHANGED <<phase, staged, old, new, services, timer>>

\* encoder-wifi-policy-guard --check.
Check ==
  /\ Go("apply", "check", "reload")
  /\ UNCHANGED <<lock, phase, staged, files, services, timer>>

\* systemctl daemon-reload, of either process.
Reload(p, from, to) ==
  /\ Go(p, from, to) /\ loaded' = override
  /\ UNCHANGED <<lock, phase, staged, files, link, recovery, timer>>

\* systemctl restart netplan-wpa-wlan0: the profile the files then hold.
Restart(p, from, to) ==
  /\ Go(p, from, to)
  /\ link' = IF old THEN "old" ELSE IF new THEN "new" ELSE "none"
  /\ UNCHANGED <<lock, phase, staged, files, loaded, recovery, timer>>

\* The wait for link_ready: both profiles name the same network.
Probe ==
  /\ Go("apply", "probe", "enable") /\ link # "none"
  /\ UNCHANGED <<lock, phase, staged, files, services, timer>>

EnableRecovery ==
  /\ Go("apply", "enable", "commit") /\ recovery' = TRUE
  /\ UNCHANGED <<lock, phase, staged, files, loaded, link, timer>>

\* Wrong on purpose: the timer is stopped before the phase is written.
CommitLock_Bug ==
  /\ lock = "nobody"
  /\ \/ phase = "pending" /\ Go("apply", "commit", "commitStage") /\ lock' = "apply"
     \/ phase # "pending" /\ Go("apply", "commit", "rb") /\ UNCHANGED lock
  /\ timer' = IF timer = "armed" THEN "stopped" ELSE timer
  /\ UNCHANGED <<phase, staged, files, services>>

CommitLock ==
  /\ lock = "nobody"
  /\ \/ phase = "pending" /\ Go("apply", "commit", "commitStage") /\ lock' = "apply"
     \/ phase # "pending" /\ Go("apply", "commit", "rb") /\ UNCHANGED lock
  /\ UNCHANGED <<phase, staged, files, services, timer>>

CommitStage ==
  \/ Stage("apply", "commitStage", "commitPut", "phase")
       /\ UNCHANGED <<lock, phase, files, services, timer>>
  \/ StageRefused("apply", "commitStage", "phase")

CommitPut ==
  /\ Go("apply", "commitPut", "stop")
  /\ phase' = "committed" /\ staged' = staged \ {"phase"} /\ lock' = "nobody"
  /\ UNCHANGED <<files, services, timer>>

StopTimer ==
  /\ Go("apply", "stop", "end")
  /\ timer' = IF timer = "armed" THEN "stopped" ELSE timer
  /\ UNCHANGED <<lock, phase, staged, files, services>>

\* Wrong on purpose: the descriptor of the lock outlives the exception.
ApplyFails_Bug ==
  /\ pc["apply"] \in ApplySteps \ {"arm", "lock", "commitPut"}
  /\ pc' = [pc EXCEPT !["apply"] = "rb"]
  /\ UNCHANGED <<lock, phase, staged, files, services, timer>>

\* A command of the script fails, times out or a check does not hold: the
\* handler calls rollback().
ApplyFails ==
  /\ pc["apply"] \in ApplySteps \ {"arm", "lock", "commitPut"}
  /\ pc' = [pc EXCEPT !["apply"] = "rb"]
  /\ lock' = IF lock = "apply" THEN "nobody" ELSE lock
  /\ UNCHANGED <<phase, staged, files, services, timer>>

-----------------------------------------------------------------------------
(* rollback(), in either process. *)

\* Wrong on purpose: only a finished rollback stops another one.
RollbackLock_Bug(p) ==
  /\ lock = "nobody"
  /\ \/ phase = "restored" /\ Go(p, "rb", "end") /\ UNCHANGED lock
     \/ phase # "restored" /\ Go(p, "rb", "rbOldStage") /\ lock' = p
  /\ UNCHANGED <<phase, staged, files, services, timer>>

RollbackLock(p) ==
  /\ lock = "nobody"
  /\ \/ phase \in {"committed", "restored"} /\ Go(p, "rb", "end") /\ UNCHANGED lock
     \/ phase \notin {"committed", "restored"} /\ Go(p, "rb", "rbOldStage") /\ lock' = p
  /\ UNCHANGED <<phase, staged, files, services, timer>>

RestoreOldStage(p) ==
  \/ Stage(p, "rbOldStage", "rbOldPut", "old")
       /\ UNCHANGED <<lock, phase, files, services, timer>>
  \/ StageRefused(p, "rbOldStage", "old")

RestoreOldPut(p) ==
  /\ Go(p, "rbOldPut", "rbUnlink")
  /\ old' = TRUE /\ staged' = staged \ {"old"}
  /\ UNCHANGED <<lock, phase, new, override, services, timer>>

UnlinkNew(p) ==
  /\ Go(p, "rbUnlink", "rbPhaseStage")
  /\ new' = FALSE /\ override' = FALSE
  /\ UNCHANGED <<lock, phase, staged, old, services, timer>>

RestoringStage(p) ==
  \/ Stage(p, "rbPhaseStage", "rbPhasePut", "phase")
       /\ UNCHANGED <<lock, phase, files, services, timer>>
  \/ StageRefused(p, "rbPhaseStage", "phase")

\* Wrong on purpose: the rollback is reported before the services follow.
RestoringPut_Bug(p) ==
  /\ Go(p, "rbPhasePut", "rbDisable")
  /\ phase' = "restored" /\ staged' = staged \ {"phase"} /\ lock' = "nobody"
  /\ UNCHANGED <<files, services, timer>>

RestoringPut(p) ==
  /\ Go(p, "rbPhasePut", "rbDisable")
  /\ phase' = "restoring" /\ staged' = staged \ {"phase"} /\ lock' = "nobody"
  /\ UNCHANGED <<files, services, timer>>

DisableRecovery(p) ==
  /\ Go(p, "rbDisable", "rbReload") /\ recovery' = FALSE
  /\ UNCHANGED <<lock, phase, staged, files, loaded, link, timer>>

RestoredStage(p) ==
  \/ Stage(p, "rbDoneStage", "rbDonePut", "phase")
       /\ UNCHANGED <<lock, phase, files, services, timer>>
  \/ StageRefused(p, "rbDoneStage", "phase")

RestoredPut(p) ==
  /\ Go(p, "rbDonePut", "end")
  /\ phase' = "restored" /\ staged' = staged \ {"phase"}
  /\ UNCHANGED <<lock, files, services, timer>>

\* A command fails: the exception ends the process; nothing tries again.
RollbackFails(p) ==
  /\ CommandsFail
  /\ pc[p] \in {"rbDisable", "rbReload", "rbRestart"}
  /\ pc' = [pc EXCEPT ![p] = "failed"]
  /\ UNCHANGED <<lock, phase, staged, files, services, timer>>

Rollback(p) ==
  \/ RollbackLock(p) \/ RestoreOldStage(p) \/ RestoreOldPut(p) \/ UnlinkNew(p)
  \/ RestoringStage(p) \/ RestoringPut(p) \/ DisableRecovery(p)
  \/ Reload(p, "rbReload", "rbRestart") \/ Restart(p, "rbRestart", "rbDoneStage")
  \/ RestoredStage(p) \/ RestoredPut(p) \/ RollbackFails(p)

-----------------------------------------------------------------------------
(* The timer, and the end of the SSH session. *)

Working == pc["apply"] \notin {"end", "failed", "killed"}

TimerFires ==
  /\ timer = "armed"
  /\ TimerEarly \/ ~Working
  /\ timer' = "fired"
  /\ pc' = [pc EXCEPT !["timer"] = "rb"]
  /\ UNCHANGED <<lock, phase, staged, files, services>>

InPut == pc["apply"] \in {"commitPut", "rbOldPut", "rbPhasePut", "rbDonePut"}

Kill ==
  /\ ScriptKilled /\ Working
  /\ KilledInPut \/ ~InPut
  /\ pc' = [pc EXCEPT !["apply"] = "killed"]
  /\ lock' = IF lock = "apply" THEN "nobody" ELSE lock
  /\ UNCHANGED <<phase, staged, files, services, timer>>

-----------------------------------------------------------------------------
Apply ==
  \/ Arm \/ ApplyLock \/ PutNew \/ UnlinkOld \/ PutOverride \/ Check
  \/ Reload("apply", "reload", "restart") \/ Restart("apply", "restart", "probe")
  \/ Probe \/ EnableRecovery \/ CommitLock \/ CommitStage \/ CommitPut \/ StopTimer
  \/ ApplyFails

Next == Apply \/ (\E p \in Procs : Rollback(p)) \/ TimerFires \/ Kill

Spec == Init /\ [][Next]_vars

\* Commands end (each has a time limit), a waiting process gets the lock, and
\* systemd fires the timer.
Fairness ==
  /\ WF_vars(Apply) /\ WF_vars(TimerFires)
  /\ \A p \in Procs : WF_vars(Rollback(p))

LiveSpec == Spec /\ Fairness

-----------------------------------------------------------------------------
(* Properties. *)

\* Once a rollback has named its phase the original profile is in place and
\* stays there; a script that was overtaken never writes its files again.
FilesFollowPhase ==
  phase \in {"restoring", "restored"} => old /\ ~new /\ ~override

\* A commit and a rollback never both happen: a committed board keeps the
\* migrated profile, whoever was waiting for the lock.
CommittedStays ==
  phase = "committed" =>
    /\ new /\ override /\ ~old
    /\ \A p \in Procs : pc[p] \notin RollbackSteps \ {"rb"}

\* When the phase says restored, the Wi-Fi service runs the original profile
\* without the override, though two processes reload and restart it.
RestoredRuns == phase = "restored" => link = "old" /\ ~loaded

\* Every migration that armed its timer ends committed or restored, even when
\* the script is killed: the timer "outlives SSH and this script"
\* (apply_wifi_migration.py:105).
Settles == timer # "unset" ~> phase \in {"committed", "restored"}
===============================================================================
