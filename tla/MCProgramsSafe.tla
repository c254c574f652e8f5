---------------------------- MODULE MCProgramsSafe ----------------------------
(***************************************************************************)
(* Five programs that share no state, for TLC: the client's window, the    *)
(* search for networks, the saved list of networks, the old files and the  *)
(* panels of two administrators.                                           *)
(* Init chooses the one a behaviour runs and the others stay as they are:  *)
(* their interleavings would add no state to any of them.                  *)
(***************************************************************************)
EXTENDS Naturals, TLC

CONSTANTS
  Paths, MaxItems, MaxTemps, ClipboardMaxBytes, SkipLimit,           \* of SecureWindow
  Panels, Helpers, Nobody, Cooldown, ScanTime, MaxScans, MaxQueue,   \* of WifiScan
  Collectors, Fresh, CollectMax, SnapshotTime,                       \* of WifiSnapshot
  Block, MaxByte, MaxSize,                                           \* of LegacyGost
  Consoles, Clients                                                  \* of BindingPanel

VARIABLES
  part,    \* the program that runs
  win, winPc, todo, re, items, temps, lastTemp, secure, clip, signal, disk,
  rights, shown, pwOk, skipped, unpaid,
  wall, stamp, slot, flock, radio, scans, attached, cmd, queue, scanPc, seen,
  client, scanAnswer, asked, panel,
  time, slow, col, file, served,
  gostPc, text, cipher, odd, digest, noise, done, raw, out, gostAnswer,
  enabled, allowed, locked, panelPc, target, reading, view, report

window == <<win, winPc, todo, re, items, temps, lastTemp, secure, clip, signal, disk,
            rights, shown, pwOk, skipped, unpaid>>
search == <<wall, stamp, slot, flock, radio, scans, attached, cmd, queue, scanPc, seen,
            client, scanAnswer, asked, panel>>
snapshot == <<time, slow, col, file, served>>
oldFile == <<gostPc, text, cipher, odd, digest, noise, done, raw, out, gostAnswer>>
panels == <<enabled, allowed, locked, panelPc, target, reading, view, report>>
vars == <<part, window, search, snapshot, oldFile, panels>>

\* An administrator takes the right to encrypt away and gives it back; the
\* answer to a password change may be lost.
Window == INSTANCE SecureWindow WITH
  pc <- winPc, TempFaults <- FALSE, LoseReplies <- TRUE,
  AccountRights <- {{"encrypt", "decrypt"}, {"decrypt"}}

Scan == INSTANCE WifiScan WITH
  pc <- scanPc, answer <- scanAnswer, MaxTime <- ScanTime

Snapshot == INSTANCE WifiSnapshot WITH MaxTime <- SnapshotTime

Gost == INSTANCE LegacyGost WITH pc <- gostPc, answer <- gostAnswer

\* Operators that overtake each other at the switch of the binding policy.
Binding == INSTANCE BindingPanel WITH
  pc <- panelPc, Users <- {}

ASSUME SafeAssumption ==
  /\ Window!WindowAssumption /\ Scan!ScanAssumption
  /\ Snapshot!SnapshotAssumption /\ Gost!GostAssumption

Symmetry == Permutations(Panels) \cup Permutations(Helpers) \cup Permutations(Collectors)

Init ==
  /\ part \in {"window", "search", "snapshot", "old file", "binding"}
  /\ Window!Init /\ (part # "window" => rights = {"decrypt"})
  /\ Scan!Init
  /\ Snapshot!Init
  /\ Gost!Init /\ (part # "old file" => text = <<>>)
  /\ Binding!Init

WindowStep   == part = "window" /\ Window!Next /\ UNCHANGED <<part, search, snapshot, oldFile, panels>>
SearchStep   == part = "search" /\ Scan!Next /\ UNCHANGED <<part, window, snapshot, oldFile, panels>>
SnapshotStep == part = "snapshot" /\ Snapshot!Next /\ UNCHANGED <<part, window, search, oldFile, panels>>
OldFileStep  == part = "old file" /\ Gost!Next /\ UNCHANGED <<part, window, search, snapshot, panels>>
BindingStep  == part = "binding" /\ Binding!Next /\ UNCHANGED <<part, window, search, snapshot, oldFile>>

Next == WindowStep \/ SearchStep \/ SnapshotStep \/ OldFileStep \/ BindingStep

Spec == Init /\ [][Next]_vars

-----------------------------------------------------------------------------
(* What the programs' modules say of them.  Each part of a conjunction is     *)
(* explained there.                                                          *)

\* The client's window, in any order of decryptions, failures, clipboard
\* signals in nested event loops, violations, re-encryptions and closings:
\* while it waits with a decrypted file in memory, secure mode is on and no
\* forbidden clipboard content goes unnoticed; every temporary file belongs to
\* an item, so that the next re-encryption removes it; and no more than
\* SkipLimit closings pass without a password change
\* (main_window.cpp updateSecureState, reencryptAll; secure_guards.cpp).
WindowSafe ==
  part = "window" => /\ Window!TypeOK
                     /\ Window!GuardedWhenIdle
                     /\ Window!ClipboardWatched
                     /\ Window!TempTracked
                     /\ Window!SkipsBounded

\* The lists of networks an administrator is shown.  A searched list is from a
\* radio scan that ended after the button was pressed (scan_session.cpp
\* wifi_scan_and_wait); a saved list is one collector's, whole, and, unless the
\* clock was set back, recent, even when a slow collector publishes over a
\* newer one (snapshot_publish.cpp, network_status.cpp).
NetworkListsSafe ==
  /\ part = "search" => Scan!TypeOK /\ Scan!AnswerIsNewer
  /\ part = "snapshot" => Snapshot!TypeOK /\ Snapshot!ServedWhole /\ Snapshot!ServedRecent

\* Files of the old utility: the server's recovery and the offline tool return
\* every intact one exactly although its padding is ambiguous, accept the same
\* files, and return nothing the trusted digest does not cover; the old reader
\* alone is exact except where a text ends like padding
\* (gost_native_recover_legacy, recover_legacy_gost.py, decr.c).
OldFilesSafe ==
  part = "old file" => /\ Gost!TypeOK
                       /\ Gost!OldFilesRecovered
                       /\ Gost!RecoveriesAgree
                       /\ Gost!NothingUnverified
                       /\ Gost!ReaderExact

\* What no step may do.  The data of a file torn by a failed re-encryption
\* leaves memory only when the file is whole again (reencryptAll); two scan
\* slots are never granted within a cool-down, however helpers interleave or
\* die (reserve_scan_slot); and a toggle never sets the value its operator was
\* shown, however two operators interleave (onToggleBinding).
StepsSafe ==
  /\ Window!TornKeepsItem
  /\ Scan!SlotsApart
  /\ Binding!ToggleFollowsView
===============================================================================
