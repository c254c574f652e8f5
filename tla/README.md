# Verification of encoder-next

TLA+ models, TLC configurations and TLAPS proofs for the parts of encoder-next
whose correctness depends on order: concurrent requests, crashes, lost answers,
timeouts. Paths are relative to the repository root unless they name a module.

## 1. The system

encoder-next encrypts files for users of a small board. It has

* a **server** (`server/src/main.cpp`): a TLS listener with one detached thread
  per connection, one request per connection (encrypt, decrypt, auth_check,
  change_password, and `admin_*` with a token, also on a second port);
* a **client** (Qt and command line) that encrypts files in place and shows
  decrypted ones in a guarded window, and an **administration program** (Qt);
* **Wi-Fi reading**: a socket-activated scan helper and a collector whose saved
  list the server hands out;
* an experimental **Wi-Fi change** subsystem: the administrator moves the board
  to another network; the change is undone unless it is confirmed in 90 seconds;
* a one-time **migration script** with a timer that undoes it, and the **legacy
  utilities** `gost.c` and `decr.c`, whose files are still recovered.

### Inventory

| Component | State | Operations | Interaction | What is hard |
|---|---|---|---|---|
| Managed Netplan file, `netplan_files.cpp` | one file | backup, replace, restore | written by owner and supervisor under the journal lock | rename visible before durable |
| Recovery journal, `wifi_journal.cpp` | one record, flock | begin, commit, cancel, recover_due | shared by owner and supervisor | fsync failing after the rename, deadlines across boots |
| Change owner, `wifi_change.cpp`, `wifi_managed_backend.cpp`, `wifi_recovery_worker.cpp` | WifiChangeState, transaction id, candidate, ticket | start, tick, confirm, cancel | calls journal, file, systemctl, link probe | any step may fail; the supervisor may act between two calls |
| Supervisor, `wifi_recovery_supervisor.cpp` | socket, 250 ms loop | tick, readiness answer | restores due records | dies inside a restoration |
| RPC helper, `wifi_rpc.cpp`, `wifi_session.cpp`, `wifi_change_helper.cpp` | at most one session | start, status, confirm, cancel, tick | one thread over a local socket | requests executed after the caller gave up |
| Request path, `wifi_connect_dialog.cpp`, `admin_window.cpp`, `main.cpp`, `wifi_change_ipc.cpp` | buttons, ticket, outstanding call | click, poll, refresh | TLS, then the socket | lost answers, restarts of the helper |
| Anomaly monitor, `monitor.cpp` | sliding windows, strike level, lock time, `user_stats.db` | record_*, is_locked, unlock | called by all session threads | clock read before the mutex; file rewritten in place |
| User store, `auth.cpp` | accounts, `users.db` | verify, upsert, set_* , save, load | under `users_mutex` | failing save after an update in memory |
| Sessions and client binding, `main.cpp` | request in progress, binding policy | one handler per operation | all of the above | checks of one request interleave with administrators |
| Audit and alerts, `audit.cpp` | two append-only logs, next alert id | log_*, get_alerts_since | polled by the administrator | paging drops the oldest |
| Client core, `client_core.cpp` with the server's key and hash files | files on the user's disk, `.cph`, `.key`, key and hash records | encrypt, decrypt | one request each | in-place rewriting, ignored results, legacy files |
| Client window, `main_window.cpp`, `secure_guards.cpp` | decrypted items, temporary files, secure mode, reminder counter | encrypt, decrypt, re-encrypt, clipboard signal, close | client core | nested event loops, closing that depends on the server |
| Administration console, `admin_window.cpp`, `admin_client.cpp` | cached alerts, policy, locks | refresh, toggle, allow, unlock | polls the server every 30 s | stale caches, two consoles |
| Scanning, `network_dialog.cpp`, `scan_*.cpp` | cooldown stamp, helper processes | search, slot, session | wpa_supplicant events | events of other scans, clock steps, killed helpers |
| Snapshots, `wifi_collector.cpp`, `snapshot_publish.cpp`, `network_status.cpp` | one file | collect, publish, serve | timer, server | overlapping collectors, age by the wall clock |
| Process runner, `wifi_process.cpp` | one child and its group | run, reap, stop | systemctl and netplan commands | reused ids, descendants, hung children |
| Transport, `net.cpp`, `tls.cpp`, `protocol.cpp`, both send_request | one connection | connect, send, receive, close | every request | unread payload, blocked peers, several addresses |
| Legacy files, `gost.c`, `decr.c`, `gost_native.cpp`, `recover_legacy_gost.py` | one file | write, read, recover | digest kept by the server | ambiguous padding, two implementations |
| Migration, `apply_wifi_migration.py` | profile files, phase file, lock, timer | apply, rollback | systemd | two processes, killed script |
| Block ciphers, encodings, preflight checks, other scripts | none with a protocol of its own | | | |

What makes each part correct is what the properties of section 3 say. All
hazards, with the line each one bites at, are in `PROJECT.json`.

## 2. Modules

    NetplanFiles <- WifiJournal <- WifiManagedBackend <- WifiRecovery <- WifiRecoveryInv
                                                 (INSTANCE WifiSwitch)
    WifiRecoveryInv <- MCWifiRecovery;  WifiRecoveryInv <- WifiRecoveryProofs <- WifiSwitchProofs
    WifiRpc <- WifiConnect <- MCWifiConnect, WifiConnectProofs   (INSTANCE WifiChanges)
    SecurityMonitor <- MCSecurityMonitor, SecurityMonitorProofs
    UserStore <- ServerSession <- MCServerSession, ServerSessionProofs
    EncryptedFile <- MCEncryptedFile, EncryptedFileProofs
    MCProgramsSafe: INSTANCE SecureWindow, WifiScan, WifiSnapshot, LegacyGost, BindingPanel
    MCProgramsLive: INSTANCE Exchange (twice), ProcessRunner, WifiMigration (twice),
                             AlertPaging, BindingPanel, SecureWindow, WifiScan
    MCProgramsSafe <- ProgramsSafeProofs;  MCProgramsLive <- ProgramsLiveProofs

(`A <- B`: B extends A.) Operators whose name has a suffix, `BeginSync_NoFsync`
and the like, are marked "wrong on purpose": plausible bugs that show that a
property notices them. No specification uses them. The sizes of the programs that
are proved about are CONSTANTS of MCProgramsSafe and MCProgramsLive, and get their
values in the two cfg files.

**NetplanFiles, WifiJournal.** A write is: temporary file, fsync, rename, fsync
of the directory. The visible contents (`file`, `journal`) change at the rename.
`fdisk` and `jdisk` are the sets of contents a power loss may leave; they grow at
a rename and collapse at the fsync. YAML and record bytes are abstracted to a
profile with its DHCPv6 policy and a record with its fields; an unreadable or
damaged file is a call that fails.

**WifiManagedBackend.** One transaction `o \in Ops` is one (single-use) backend
with its WifiChange. `pc[o]` is the next effect of the call in progress: calls
are cut at the flock, at every rename, at every directory fsync and at systemctl,
because those are the points another process or a power loss can see. Every step
can fail (`CallFails`, `ApplyFails`, `RestoreFails`, `ReconfigureFails`);
Ethernet, preflight and entropy checks appear only through these failures.
`live` is the configuration the wpa service runs with, `job` a systemd job that
outlived its killed `systemctl`. Two clocks are kept: CLOCK_BOOTTIME (journal)
and the steady clock (owner), which stops in suspend. The link probe looks at the
SSID only, and so does `LinkReady`.

**WifiRecovery** adds the supervisor, SIGKILL, late jobs, the clocks and power
loss, and states the properties. **WifiSwitch** is what a change promises without
journal, file, lock or service: one configuration in force that only a commit
replaces, tentative until acknowledged.

**WifiRpc, WifiConnect.** The path from the dialog to the helper. A WifiChange
is its state and the results its calls may have; `fate[w]` remembers what became
of the change window `w` asked for. Calls may be lost before or after execution,
given up while queued, and the helper may die inside a request. After a death the
recovery of a pending change is taken from WifiRecovery (`Abandoned`). **WifiChanges**
is what the administrators are promised without sockets, queues, sessions or tickets:
a change begins at most once, beside no other pending one, and ends once for all.

**SecurityMonitor.** Each handler is a function from a user's statistics to the
next ones; a call reads the clock (`Call`) and gets the mutex later (`Body`). An
hour of the day lasts one second here, and there are two. Averages are compared
by cross-multiplication. Audit entries are left out.

**UserStore, ServerSession.** Sessions are cut at every release of a mutex. The
monitor appears as `locked[u]`: a record_* call may lock the account, the clock
may unlock it. The databases of monitor and binding policy are rewritten in place
without error checks, so `Restart` finds anything in them; `users.db` is replaced
by rename and is found as last saved. `seen[s]` is a history variable: the
permits that have been in force at some moment of the request's life.

**EncryptedFile.** Client processes on one directory and the server's stores. A
ciphertext is symbolic, `Enc(i)`; `Cut(i, where)` is what an interrupted rewrite
leaves, by where it stopped: before the magic, in the header, in the data. One
identifier stands for key, key_id and file_id, which are drawn together. Ciphers
are of three kinds: authenticated, unauthenticated, and the old utility's. A file
may be encrypted again, so `sealed[i]` may itself be an encrypted file. Rights are
left to ServerSession: here the server may refuse at will.

**SecureWindow.** The window's single thread: `pc` says which handler it is in, and
clipboard signals are delivered only where the code runs an event loop (idle, and
inside the message boxes that interrupt onDecrypt and closeEvent). Re-encryption
remembers who called it. What encrypt_data does to a file is abstracted to done,
refused and torn, the outcomes EncryptedFile gives it.

**AlertPaging, BindingPanel.** Consoles against the audit file and the binding
policy. A line of the file is its identifier and the alert it is about, so that
an identifier given twice would show. A console's handler is cut at each request;
a request may be lost before or after the server carried it out. The server's read
of `binding_enabled` after the mutex is released is a step of its own.

**WifiScan, WifiSnapshot.** A list of networks is the number of radio scans
completed when wpa_supplicant produced it, or the time at which it was asked: enough
to say that an answer is newer than its question, or recent. wpa_supplicant, systemd and
the clock are external. Deadlines are not counted; a wait may end at any time.

**Exchange.** One request on its connection; payloads are counts of units, and each
direction holds `Cap` units that were sent and not read, so both sides can block.
A close with unread data resets the connection and may drop the answer. The same
module stands for both callers: `IoTimeout` tells the administration program (which
sets a time-out) from the file client (which does not).

**ProcessRunner.** The runner's system calls against a child that may be anywhere
between fork and its end, its descendants, and a kernel that reuses identifiers.

**LegacyGost.** Writer, reader and both recoveries over blocks of three bytes; a
CBC block read after the wrong block gives noise, a digest is the text itself.

**WifiMigration.** The script and the process its timer starts; put() is two steps,
the stage file and the rename, and locked sections are as in the code.

## 3. Runs

Wi-Fi transaction (`MCWifiRecovery`):

* `wifi_recovery`: two owners, two profiles of one SSID (a changed PSK, which
  the probe cannot tell apart), a window of one tick, one power loss.
  `CrashSafe`: whatever survives, the old configuration can be found.
  `CommittedIsFinal`, `RolledBackIsRestored`: what was reported stays true of
  everything that may survive. `CommittedWasReady`: a change that was still connecting,
  or was rolled back, never turns out committed, whoever was killed where.
  `ServiceFollowsFile`: nothing is recorded as resolved before the service was
  restarted. `RestoresOwnTransaction`,
  `PendingNotOverwritten`: nobody undoes or overwrites somebody else's change.
  The same run checks `ImplementsSwitch`, the refinement of WifiSwitch with `settled` =
  backup of a pending record or else the file.
* `wifi_recovery_live`: `PendingResolved`, and `PolicyPreserved`, the DHCPv6 policy
  survives every path. One owner, one profile, two policies.

Wi-Fi request path (`MCWifiConnect`):

* `wifi_connect`: two windows and a queue of two. `PendingHasSession`,
  `CommittedByOwnConfirm` (with the ticket), `ShownIsTrue`, and `ImplementsChanges`,
  the refinement of WifiChanges by `fate`. Its mutant sends a start again when no answer
  came: executed late, the second copy makes one change of a window begin twice.
* `wifi_connect_live`: `ChangeEnds`, under fairness of the helper's tick.
* `wifi_connect_rejected`, `wifi_connect_blocked`: findings, see below.

Monitor (`MCSecurityMonitor`): `security_monitor` with thresholds of two,
windows of one and two seconds, four calls of two threads, one restart, locks both
configured and by ladder. `AlarmLocks`, `AlarmNotMissed`, `LockNeverShortened`,
`RestartKeepsLocks`. `monitor_zero_lock` is a finding.

Server (`MCServerSession`): `server_session`, one account, two clients, two
sessions serving request after request. `ServedWasAllowed`, `StoreIsDurable`,
`RightsOnlyByAdmin`, `PasswordChangedByHolder`.

Files (`MCEncryptedFile`): `encrypted_file`, two clients on one file that may be
legacy, two encryptions, ciphers that notice damage and ciphers that do not, hash
records that are not written and disks that lose data silently. `FilesOpen`: every
complete encrypted file can be opened, with the one exception of a file whose hash
record the server failed to write (`lost`), and a legacy file keeps its `.cph` and
`.key` until it is replaced (`LegacyKeepsSidecars`). `DecryptFaithful`: what a
decryption returns is what was encrypted.

The other programs share no state with each other, so interleaving them would add no
state to any of them. `MCProgramsSafe` and `MCProgramsLive` instantiate them side by
side; `part`, chosen in the initial state, is the one program that a behaviour runs.
A property of these two modules joins what the programs' own modules define and
explain; each part has a wrong version of the code that breaks it.

`programs_safe`, larger bounds, safety only:

* `WindowSafe`: two files, two temporary files, rights that an administrator changes,
  lost answers to change_password, two reminders. `GuardedWhenIdle`,
  `ClipboardWatched`, `TempTracked` (with removals that succeed), `SkipsBounded`.
* `NetworkListsSafe`: two dialogs, two helpers and a clock that steps either way
  (`AnswerIsNewer`); two collectors (`ServedWhole`, and `ServedRecent` while the clock
  has not been set back).
* `OldFilesSafe`: every text of up to four bytes in blocks of three.
  `OldFilesRecovered`, `NothingUnverified`, `RecoveriesAgree`, `ReaderExact`.
* `StepsSafe`, what no step may do: `TornKeepsItem` (the last copy of torn data stays
  in memory), `SlotsApart` (scan slots a cooldown apart), `ToggleFollowsView` (two
  consoles at the binding switch).

`programs_live`, smaller bounds, with fairness:

* `CallSafe`: two addresses, buffers of two units and requests below, at and above
  each limit. `OkIsWhole`, `RefusalTold` (a refusal is lost only where the handler
  left a payload unread or the header was too long), `ConnectBounded`,
  `SocketsClosed`. There are two callers: the file client, and the administration
  program with its time-out and a host that may vanish.
* `ProcessSafe`: `OnlyOwnKilled`, `NoSurvivors`, `OneCommand`, `SuccessIsTrue`.
* `MigrationSafe`, with everything that can fail: `FilesFollowPhase`,
  `CommittedStays`, `RestoredRuns`.
* `ConsolesSafe`, four alerts and a limit of two: `AlertsOnce`, `OnlyOverflowSkips`,
  `OverflowIsOldest`.
* `WorkEnds`: the server's thread of a file call (`ThreadEnds`), a call of the
  administration program (`CallReturns`), `RunReturns`, a migration whose script is
  killed outside put() (`Settles`), the window of a user with both rights, a clipboard
  limit of 0, failing temporary files and refusals (`CanLeave`), and a search with two
  helpers (`SearchEnds`).
* `ConsolesCatchUp`: `AlertReaches`, `ViewsConverge`, `LockReported`.

**Why the bounds are enough.** Two owners give every conflict of a transaction
with an earlier, a later and a concurrent one. A clock of two ticks per boot has
before, at and after the deadline. One power loss follows every combination of
completed and uncompleted renames; a second one would start from a state with
nothing uncertain, which the first already reaches, and the proofs have no bound
on boots. Two windows give the foreign ticket and the foreign session. In the
monitor two stale samples and two fresh ones are enough to cross every threshold
of two out of order. Two clients meet at every step of a rewrite, and two
encryptions give an encrypted file inside an encrypted file. Four alerts overflow a
limit of two, at once or with a restart between them. Two helpers and a cooldown
of two ticks in a time of three give a slot refused, granted and refused again
after the clock was set back. Four bytes in blocks of three contain every case of
the padding rule: none, partial, a second block, and text that looks like padding. Two process
identifiers are one for the command and one reused. Symmetry is over owners,
profiles, windows, threads, sessions, passwords, clients, collectors, panels and
helpers, never in a liveness run.

**Deadlock** is not checked where the model may stop: `WifiConnect` (all windows
closed), `SecurityMonitor` (calls and clock are bounded), and the two runs of several
programs (one request, one file or one migration, and then nothing).

**Fairness.** In `wifi_recovery_live` an owner inside a call returns (every
callback has a time limit), systemd restarts the supervisor (Restart=on-failure),
time passes, and the supervisor's loop, which repeats every failed tick 250 ms
later, succeeds in each step if it is tried for ever (strong fairness: the disk
and systemctl do not fail always). Nothing is assumed of the user or of the owner
staying alive. In `wifi_connect_live` only the helper's own tick is fair.

In `programs_live` the fairness is that of the program that runs. Window: its own
steps are taken, and the user, who is the subject of the property, keeps closing it; a
request that the server would accept is carried out if it is repeated for ever. Paging
and binding: the 30-second timer goes on, every call ends (5 s time-out), and answers
keep coming although any one may be lost. Search: a helper's waits have absolute
deadlines and a dialog reads its answer; nothing is assumed of wpa_supplicant, nor of
the dialog's own deadline. Killed migration: commands end (each has a time limit) and
systemd fires the timer. Calls: both processes run on and a reset arrives; only the
administration program is promised an end when the peer is silent. Process: the runner
goes on and time passes; nothing is assumed of the command.

### Findings

* A refusal of Status, Confirm or Cancel by the server (Ethernet path lost, token
  changed) reaches the dialog as `Rejected`, which says that nothing was changed
  and stops watching a change that is pending (`RejectedIsDefinitive`).
* A start refused before anything happened leaves an Idle session that is never
  "finished", and blocks all later starts (`OnlyUnrecoveredBlocks`).
* A lock time of 0 does not switch a lock off as the README says; it selects the
  strike ladder (`ZeroDisablesLock`).

### Limits of the properties

The modules can also show what the code does not promise. A property is stated for
the case in which it holds, and the constant or variable that leaves the other case
out is named here:

* An encryption whose hash record could not be written (`main.cpp:434`) is reported as
  successful and cannot be decrypted: `lost` in `FilesOpen`.
* Encrypting a file of the older program once more deletes its `.key`
  (`client_core.cpp:582`): `LegacyKeepsSidecars` ends when the file is replaced.
* A user who may only decrypt cannot close the window after decrypting
  (`main_window.cpp:434`), nor can one whose change_password answer was lost
  (`main_window.cpp:724`): `AccountRights` and `LoseReplies` in the window of
  `programs_live`.
* A temporary file that could not be removed is forgotten and left behind
  (`main_window.cpp:632`): `TempFaults` in the window of `programs_safe`.
* After the clock was set back the server serves a snapshot older than its limit
  (`network_status.cpp:63`): `slow` in `ServedRecent`.
* A migration script killed inside put() leaves a stage file on which the timer's
  rollback fails (`apply_wifi_migration.py:33`), and a failing command ends a rollback:
  `KilledInPut` and `CommandsFail` for `Settles`. A script overtaken by the timer
  enables the recovery service after the rollback has disabled it
  (`apply_wifi_migration.py:131`); the properties are about the profile and the Wi-Fi
  service.
* Neither the file client nor the session threads set an I/O time-out: `Silence` in the
  file call.

## 4. Proofs

Every safety property of the runs, invariants and action properties alike, is also a
theorem, for every value of the constants. Each was first checked by TLC, and so were the
invariants of the Wi-Fi transaction, on the bounds of section 3. *Assumptions* are the named
ASSUMEs of the modules, which TLC evaluates in every run, and nothing else: special
values are not ordinary ones, flags are BOOLEAN, counts and limits are numbers (and
positive where zero would make the code's own loop meaningless). Bounds such as
`MaxAlerts` or `MaxTime` stay in the guards, but may be any number.

Each proof has the same shape: lemmas about the operators, one lemma per action that
it preserves the inductive invariant, one for the initial state, and the theorem by
temporal reasoning. What differs is why the property is not inductive by itself.

**WifiRecoveryProofs** (owners, profiles, policies, boots, window length):
`TypeOK`, `CrashSafe`, `CommittedIsFinal`, `RolledBackIsRestored`,
`CommittedWasReady`, `ServiceFollowsFile`, `RestoresOwnTransaction`,
`PendingNotOverwritten`. `CrashSafe` alone says nothing of where a process stands when it
renames; so the inductive invariant `IInv` (module WifiRecoveryInv) adds that who is
inside a locked section holds the lock (`LockInv`); that every record that may survive was built by its owner's prepare() or
is the resolution of such a record (`RecInv`, `DiskInv`); that no transaction can have
two fates on one disk (`OneFate`); which files go with which records (`FileInv`); what
an owner and a restoration rely on at each program point (`OwnerInv`, `RestoreInv`);
and that reports stay true (`ReportInv`, `DoneInv`). The delicate clause is that an
owner between two calls keeps its candidate durable *unless its record is due*: only
then may the supervisor have interfered. `CommittedWasReady` needs one clause more,
`ReadyInv`: an owner inside commit() has just seen its connection up, and whoever has a
Committed record anywhere on the disk has left the watching loop, where the state could
fall back to Connecting.

**WifiSwitchProofs**: WifiRecovery implements WifiSwitch (`SwitchRefined`), so journal
and file together behave as one atomic register. From `IInv` every step is classed by
what the switch sees of it: most steps change neither `settled`, nor the set of values
a power loss may leave, nor an outcome; a journal fsync or a rename of the file under a
pending record is the step in which a change is begun, committed or given up; a power
loss picks one possible value. `PolicyKept` needs one more clause, `PolicyInv`: the
candidate of a claimed transaction has the policy of its backup, because prepare()
copies it there and nobody touches either afterwards.

**WifiConnectProofs** (windows, length of the queue): `TypeOK`, `PendingHasSession`,
`ShownIsTrue`, `CommittedByOwnConfirm`, `ImplementsChanges`, and `CommitNeedsTicket`, that
no change is committed whose window never learnt the ticket. What could break them is a
request executed late, so the invariant is about requests under way: a window's start
exists at most once between its button and the helper, and until it is executed nothing
else has happened to that window's change (`StartInv`); whatever else is queued was
sent with a ticket (`TicketInv`); the session's state is the fate of its own window
(`SessionInv`); a final answer on its way is already true (`ReplyIsTrue`) and, because
fates are final, still true when it is shown. For `ImplementsChanges` (`ChangesRefined`)
every step is then a step of WifiChanges or leaves `fate` alone: a start that is executed
finds its window's change not begun, by `StartInv`, and no other one pending, because a
pending change is that of the session (`PendingHasSession`) and the helper refuses to
replace such a session; every other request, tick or death can only end the pending one.

**ServerSessionProofs** (threads, accounts, passwords, clients): `TypeOK`,
`ServedWasAllowed`, `StoreIsDurable`, `RightsOnlyByAdmin`, `PasswordChangedByHolder`.
`ServedWasAllowed` speaks of the end of a request, so `PermitInv` says the same of each
step on the way: a check that is behind a request has seen its permit, and the history
`seen` includes whatever holds now. `RequestInv` ties the request to the step.

**SecurityMonitorProofs** (thresholds, windows, locks, ladder, users, threads):
`TypeOK`, `AlarmLocks`, `AlarmNotMissed`, `LockNeverShortened`, `RestartKeepsLocks`.
A body may run with a clock sample older than entries already in a window. The
invariant therefore says that no time in the statistics is later than the clock
(`MonitorTypes`), that each user's statistics are sound (`UsersSound`: the alarm of a
full window was heard, and an alarm not lifted since has its lock), and that after a
complete save the file has the locks of the memory (`FileHasLocks`). The handlers are
functions on statistics, and the lemmas say what pruning, raising and locking keep.
`AlarmNotMissed` is about windows that are not empty, and a volume threshold above 0: an
alarm is only looked for when something is added.

**EncryptedFileProofs** (clients, files, encryptions, disk faults): `TypeOK`,
`FilesOpen`, `DecryptFaithful`. Files are opened later than they are written, perhaps
from inside another file; so the invariant follows the data: on the disk (`DiskInv`),
sealed in an encryption (`SealedInv`), in a client's request (`OpInv`) and in its
memory (`HeldInv`), a complete encrypted file always has an identifier that was drawn
and can be opened. `LegacyKeepsSidecars` is inductive with `OpInv`, which says that
`.cph` and `.key` are removed only after the file was replaced.

**ProgramsSafeProofs**:

* `WindowSafe` and `TornKeepsItem` (files, items, temporary files, reminders): the
  thread's place says which call is under way (`ThreadInv`), secure mode lags behind the
  items only inside onDecrypt (`SecureInv`), and reencryptAll has finished exactly the
  items before its next one (`ReencryptInv`).
* `AnswerIsNewer` and `SlotsApart` (dialogs, helpers, cooldown): a helper hears of scans
  that others started; `HeardInv` says that a completion it has heard of, a message in
  its queue and a table it was sent are all newer than the question of the dialog it
  works for, `QuietInv` that nothing is left over from an earlier session, and `SlotInv`
  that the stamp is never older than the last slot.
* `ServedWhole` and `ServedRecent` (collectors): a collector runs for at most
  `CollectMax`, so what it stamped is not older than that (`CollectorInv`, `FileInv`).
* `ToggleFollowsView` (consoles): what a console is about to set is not what it shows
  (`PanelInv`).
* `OldFilesSafe` (block length, byte range, size limit): the writer's blocks are the text
  in order and then the padding (`Encrypted`, kept by `WriterInv`), the reader's output is
  the bytes of the blocks it has passed (`ReaderInv`), and damage is either visible in
  `Intact` or has changed nothing (`StoredInv`). Then the padding of an intact file is the
  difference of two lengths, less than a block, and either it is 0 or the last byte tells
  it. This needs division by an unknown block length, in lemmas of its own
  (`PositionBlock`, `ByteOfBlock`). Whole texts are functions on positions here, since
  nothing can be proved about a recursive concatenation.

**ProgramsLiveProofs**, the safety part of the specification with fairness:

* `CallSafe` (sizes, limits, buffers, addresses): the proof is done once, for a call that
  asks anything (`AnyCall`), and both callers are cases of it. `ConnectInv`, `CallerInv`
  and `ServerInv` say how much was sent, read and answered at each point; `ClosedInv`,
  that a connection is closed early or reset only with an excuse.
* `ProcessSafe` (identifiers, tries): the runner's identifier is a process of its own,
  alive or not yet reaped, and cannot be reused before (`OwnProcess`); whoever is left of
  a group is still the runner's to kill (`OwnKids`).
* `MigrationSafe`, with every fault switch: which phase (`PhaseInv`), files (`FilesInv`,
  `MigratedInv`), stage files (`StageInv`) and services (`ServiceInv`) each process can
  meet at each step, given that the lock excludes the other.
* `ConsolesSafe` (consoles, alerts, page size): identifiers rise with the lines of the
  file even across restarts and failed appends (`AlertsInOrder`), and a console's last
  identifier is one of the file (`ConsoleAt`), so that a page continues where the
  previous one ended.

*Only model-checked*: liveness (`PendingResolved`, `ChangeEnds`, `WorkEnds`,
`ConsolesCatchUp`), because fairness and ENABLED are out of the prover's reach; and the
three findings, which are counterexamples. The theorems are about the models: what
section 5 leaves out is left out of them too.

## 5. Not modelled

* Block ciphers, modes and hashes (bit-level algorithms), TLS internals, base64,
  configuration text and memory hygiene: no protocol state. `gost_cli.cpp` only runs
  the old programs.
* Netplan preflight and policy guard: stateless inspections of system files; in the
  models a check that may fail.
* Widgets, texts, previews and reports; the dump_* and list operations, which change
  nothing; the text log; the console's local device list.
* The dated installation and cut-over scripts, run by hand step by step.
* Power loss outside the Wi-Fi files: `users.db`, `user_stats.db`,
  `client_binding.db` and the key files are written without fsync and promise nothing.
* A torn line in the alert file, a failed start of the main listener, `--init-user` beside a running server (the
  documentation runs it first), and a clock set back under the anomaly monitor: the
  code has no handling to check.
* The supervisor's single-instance lock.

## 6. Plan

All components with a protocol of their own are modelled, and all safety properties of
the runs are proved. What would say more:

1. Stronger abstract specifications: the users' store as an atomic register
   and the old files' recovery as a function of the text, with the present modules shown
   to implement them.
2. The `Abandoned` fate of WifiConnect is taken from WifiRecovery by argument: a helper
   killed outside a confirm leaves a record that only the supervisor resolves.
   `CommittedWasReady` gives this for a change that is still connecting; for one that
   awaits its confirmation, WifiRecovery would have to remember where its owner died.
3. Step-wise parts of the liveness arguments: the invariants that say that a waiting
   process is never without somebody who can wake it.
