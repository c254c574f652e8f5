---------------------------- MODULE MCProgramsLive ----------------------------
(***************************************************************************)
(* The programs that must come to an end or catch up, for TLC with the     *)
(* fairness of each: calls over the network, commands of the process       *)
(* runner, the migration script, the administrators' lists and panels, the *)
(* client's window and the search for networks.  They share no state: Init *)
(* chooses the one a behaviour runs and the others stay as they are.       *)
(***************************************************************************)
EXTENDS Naturals

CONSTANTS
  Headers, Sizes,                \* of Exchange: what is sent
  Cap, HeaderMax, FileMax, FileReplyMax, AdminReplyMax, Addresses, ConnectTimeout,
  Pids, MaxTries,                \* of ProcessRunner
  Consoles, Limit, MaxAlerts,    \* of AlertPaging
  Clients, Users                 \* of BindingPanel, with Consoles

VARIABLES
  part,    \* the program that runs
  c, s, req, attempt, clock, open, sent, read, verdict, wrote, taken, reset, dropped, fault,
  at, for, pid, expired, tries, outcome, proc, kids, lastEnd, victim,
  migPc, lock, phase, staged, old, new, override, loaded, link, recovery, timer,
  alerts, nextId, raised, lastId, list, passed,
  enabled, allowed, locked, panelPc, target, reading, view, report,
  win, winPc, todo, re, items, temps, lastTemp, secure, clip, signal, disk,
  rights, shown, pwOk, skipped, unpaid,
  wall, stamp, slot, flock, radio, scans, attached, cmd, queue, scanPc, seen,
  client, scanAnswer, asked, panel

call == <<c, s, req, attempt, clock, open, sent, read, verdict, wrote, taken, reset, dropped, fault>>
runner == <<at, for, pid, expired, tries, outcome, proc, kids, lastEnd, victim>>
migration == <<migPc, lock, phase, staged, old, new, override, loaded, link, recovery, timer>>
paging == <<alerts, nextId, raised, lastId, list, passed>>
panels == <<enabled, allowed, locked, panelPc, target, reading, view, report>>
window == <<win, winPc, todo, re, items, temps, lastTemp, secure, clip, signal, disk,
            rights, shown, pwOk, skipped, unpaid>>
search == <<wall, stamp, slot, flock, radio, scans, attached, cmd, queue, scanPc, seen,
            client, scanAnswer, asked, panel>>
vars == <<part, call, runner, migration, paging, panels, window, search>>

-----------------------------------------------------------------------------
(* The programs and their bounds. *)

\* The file client sets no I/O time-out, and a file comes back as large as it
\* was sent; the host of the server does not vanish.
FileRequests == {[header |-> h, payload |-> n, body |-> n] : h \in Headers, n \in Sizes}
FileCall == INSTANCE Exchange WITH
  Requests <- FileRequests, ReplyMax <- FileReplyMax, IoTimeout <- FALSE, Silence <- FALSE

\* The administrator's program sends headers and is answered with tables.
AdminRequests == {[header |-> h, payload |-> 0, body |-> n] : h \in Headers, n \in Sizes}
AdminCall == INSTANCE Exchange WITH
  Requests <- AdminRequests, ReplyMax <- AdminReplyMax, IoTimeout <- TRUE, Silence <- TRUE

Process == INSTANCE ProcessRunner WITH last <- lastEnd

\* Everything may go wrong ...
Migration == INSTANCE WifiMigration WITH
  pc <- migPc, ScriptKilled <- TRUE, KilledInPut <- TRUE, TimerEarly <- TRUE, CommandsFail <- TRUE

\* ... and what the timer is there for: the script is killed outside put().
KilledMigration == INSTANCE WifiMigration WITH
  pc <- migPc, ScriptKilled <- TRUE, KilledInPut <- FALSE, TimerEarly <- FALSE, CommandsFail <- FALSE

Paging == INSTANCE AlertPaging WITH
  file <- alerts, last <- lastId, skipped <- passed, AppendFails <- TRUE

Binding == INSTANCE BindingPanel WITH pc <- panelPc

\* An account with both rights; the answers of the server arrive.
Window == INSTANCE SecureWindow WITH
  pc <- winPc, Paths <- {"p1"}, MaxItems <- 2, MaxTemps <- 1, ClipboardMaxBytes <- 0,
  SkipLimit <- 1, TempFaults <- TRUE, LoseReplies <- FALSE,
  AccountRights <- {{"encrypt", "decrypt"}}

Scan == INSTANCE WifiScan WITH
  pc <- scanPc, answer <- scanAnswer, Panels <- {"p1"}, Helpers <- {"h1", "h2"},
  Nobody <- "nobody", Cooldown <- 1, MaxTime <- 2, MaxScans <- 1, MaxQueue <- 1

ASSUME LiveAssumption ==
  /\ FileCall!ExchangeAssumption /\ AdminCall!ExchangeAssumption
  /\ Process!RunnerAssumption /\ Paging!PagingAssumption
  /\ Migration!MigrationAssumption /\ KilledMigration!MigrationAssumption
  /\ Window!WindowAssumption /\ Scan!ScanAssumption

-----------------------------------------------------------------------------
Parts == {"file call", "admin call", "process", "migration", "killed migration",
          "paging", "binding", "window", "search"}

SomeRequest == [header |-> 1, payload |-> 0, body |-> 0]

Init ==
  /\ part \in Parts
  /\ CASE part = "file call" -> FileCall!Init
       [] part = "admin call" -> AdminCall!Init
       [] OTHER -> FileCall!Init /\ req = SomeRequest
  /\ Process!Init /\ Migration!Init /\ Paging!Init /\ Binding!Init /\ Window!Init /\ Scan!Init

FileCallStep == /\ part = "file call" /\ FileCall!Next
                /\ UNCHANGED <<part, runner, migration, paging, panels, window, search>>
AdminCallStep == /\ part = "admin call" /\ AdminCall!Next
                 /\ UNCHANGED <<part, runner, migration, paging, panels, window, search>>
ProcessStep == /\ part = "process" /\ Process!Next
               /\ UNCHANGED <<part, call, migration, paging, panels, window, search>>
MigrationStep == /\ part = "migration" /\ Migration!Next
                 /\ UNCHANGED <<part, call, runner, paging, panels, window, search>>
KilledMigrationStep == /\ part = "killed migration" /\ KilledMigration!Next
                       /\ UNCHANGED <<part, call, runner, paging, panels, window, search>>
PagingStep == /\ part = "paging" /\ Paging!Next
              /\ UNCHANGED <<part, call, runner, migration, panels, window, search>>
BindingStep == /\ part = "binding" /\ Binding!Next
               /\ UNCHANGED <<part, call, runner, migration, paging, window, search>>
WindowStep == /\ part = "window" /\ Window!Next
              /\ UNCHANGED <<part, call, runner, migration, paging, panels, search>>
SearchStep == /\ part = "search" /\ Scan!Next
              /\ UNCHANGED <<part, call, runner, migration, paging, panels, window>>

Next ==
  \/ FileCallStep \/ AdminCallStep \/ ProcessStep \/ MigrationStep \/ KilledMigrationStep
  \/ PagingStep \/ BindingStep \/ WindowStep \/ SearchStep

\* The fairness each module justifies, for the program that runs.
Fairness ==
  \/ part = "file call" /\ FileCall!Fairness
  \/ part = "admin call" /\ AdminCall!Fairness
  \/ part = "process" /\ Process!Fairness
  \/ part = "killed migration" /\ KilledMigration!Fairness
  \/ part = "paging" /\ Paging!Fairness
  \/ part = "binding" /\ Binding!Fairness
  \/ part = "window" /\ Window!Leaving
  \/ part = "search" /\ Scan!Fairness
  \/ part = "migration"

LiveSpec == Init /\ [][Next]_vars /\ Fairness

-----------------------------------------------------------------------------
(* What the programs' modules say of them.  Each part of a conjunction is     *)
(* explained there.                                                          *)

\* A request over a connection that can fill up, be reset, or die: success is
\* reported only of a whole answer to a whole payload; without a fault a
\* refusal is told, but for a header too long or a payload left unread;
\* connect_to tries every address within one time-out; and a call holds one
\* socket while it is connected and none when it returns (client_core.cpp,
\* admin_client.cpp, net.cpp, main.cpp).
CallSafe ==
  /\ IF part = "admin call" THEN AdminCall!TypeOK ELSE FileCall!TypeOK
  /\ FileCall!OkIsWhole
  /\ FileCall!RefusalTold
  /\ FileCall!ConnectBounded
  /\ FileCall!SocketsClosed

\* WifiProcessRunner signals no process but its command's own although the
\* system reuses identifiers, leaves none of them behind, runs one command at a
\* time although one may be impossible to kill, and reports success only of a
\* command that ended by itself with code 0 (wifi_process.cpp).
ProcessSafe ==
  /\ Process!TypeOK
  /\ Process!OnlyOwnKilled
  /\ Process!NoSurvivors
  /\ Process!OneCommand
  /\ Process!SuccessIsTrue

\* The migration script and the rollback of its timer, wherever either is
\* killed or fails: a rollback that has named its phase has put the original
\* profile in place for good, a commit and a rollback never both happen, and
\* "restored" means that the service runs the original profile
\* (apply_wifi_migration.py apply, rollback).
MigrationSafe ==
  /\ Migration!TypeOK
  /\ Migration!FilesFollowPhase
  /\ Migration!CommittedStays
  /\ Migration!RestoredRuns

\* A console shows no alert twice and all in order, although lines are lost and
\* the server is restarted; an alert it has passed was shown, or gave way to
\* Limit newer ones (AuditService::get_alerts_since, onRefreshAlerts).
ConsolesSafe ==
  /\ Paging!TypeOK /\ Binding!TypeOK
  /\ Paging!AlertsOnce
  /\ Paging!OnlyOverflowSkips
  /\ Paging!OverflowIsOldest

\* What is begun ends: the server's thread of a file's transfer (neither side
\* waits for the other for ever), a call of the administrator's program even
\* when the host vanishes, run() even when its command cannot be killed, a
\* migration whose script is killed, the window of a user who keeps closing it,
\* and a search whose helper may die.
WorkEnds ==
  /\ part = "file call" => FileCall!ThreadEnds
  /\ part = "admin call" => AdminCall!CallReturns
  /\ Process!RunReturns
  /\ part = "killed migration" => KilledMigration!Settles
  /\ Window!CanLeave
  /\ Scan!SearchEnds

\* A console that keeps refreshing catches up although answers are lost: every
\* alert in the file reaches it or falls to the limit, the binding policy it
\* shows becomes the one in force, and a lock that lasts is reported again
\* (onAutoRefresh).
ConsolesCatchUp ==
  /\ Paging!AlertReaches
  /\ part = "binding" => Binding!ViewsConverge
  /\ Binding!LockReported
===============================================================================
