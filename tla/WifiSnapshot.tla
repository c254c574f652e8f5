----------------------------- MODULE WifiSnapshot -----------------------------
(***************************************************************************)
(* The saved list of networks: collectors started by a timer or by hand    *)
(* (server/src/wifi_collector.cpp) read wpa_supplicant (wifi_control.cpp)  *)
(* and publish a snapshot (snapshot_publish.cpp) that the server hands to  *)
(* administrators (network_status.cpp).                                    *)
(*                                                                         *)
(* What wpa_supplicant answers is known by the time it was asked.  A file  *)
(* that was renamed into place is never written again, so a reader that    *)
(* has opened one reads it as it is.                                       *)
(***************************************************************************)
EXTENDS Naturals

CONSTANTS
  Collectors,   \* collector processes
  Fresh,        \* age up to which the server accepts a snapshot (90 s)
  CollectMax,   \* time a collector may run before systemd ends it (10 s)
  MaxTime       \* bound: time

SnapshotAssumption ==
  /\ Fresh \in Nat /\ CollectMax \in Nat /\ MaxTime \in Nat

VARIABLES
  time,     \* time since the board was started
  slow,     \* how much the wall clock was set back: it shows time - slow
  col,      \* each collector: where it is and what it holds
  file,     \* wifi.txt
  served    \* the last snapshot the server accepted, and when

vars == <<time, slow, col, file, served>>

Wall == time - slow
\* The time of the first reading, the stamp of the wall clock, and whether
\* all bytes are there.
Snapshots == [at : 0..MaxTime, stamp : 0..MaxTime, whole : BOOLEAN]
Empty == [at |-> 0, stamp |-> 0, whole |-> FALSE]
Idle == [pc |-> "idle", snap |-> Empty]

TypeOK ==
  /\ time \in 0..MaxTime /\ slow \in 0..time
  /\ col \in [Collectors -> [pc : {"idle", "status", "stamp", "write", "rename"}, snap : Snapshots]]
  /\ \A c \in Collectors : col[c].snap.whole <=> col[c].pc = "rename"
  /\ file \in Snapshots
  /\ served \in [snap : Snapshots, when : 0..MaxTime]

Init ==
  /\ time = 0 /\ slow = 0
  /\ col = [c \in Collectors |-> Idle]
  /\ file = Empty
  /\ served = [snap |-> Empty, when |-> 0]

Goto(c, from, to, snap) ==
  /\ col[c].pc = from
  /\ col' = [col EXCEPT ![c] = [pc |-> to, snap |-> snap]]

-----------------------------------------------------------------------------
\* wifi_cached_results.
ReadResults(c) ==
  /\ Goto(c, "idle", "status", [Empty EXCEPT !.at = time])
  /\ UNCHANGED <<time, slow, file, served>>

\* wifi_connection_status, a second exchange with wpa_supplicant.
ReadStatus(c) ==
  /\ Goto(c, "status", "stamp", col[c].snap)
  /\ UNCHANGED <<time, slow, file, served>>

\* The stamp is taken when both have been read.
TakeStamp(c) ==
  /\ Goto(c, "stamp", "write", [col[c].snap EXCEPT !.stamp = Wall])
  /\ UNCHANGED <<time, slow, file, served>>

\* publish_wifi_snapshot writes and synchronises a file of its own name ...
WriteTemporary(c) ==
  /\ Goto(c, "write", "rename", [col[c].snap EXCEPT !.whole = TRUE])
  /\ UNCHANGED <<time, slow, file, served>>

\* ... and renames it into place.
Rename(c) ==
  /\ Goto(c, "rename", "idle", Empty)
  /\ file' = col[c].snap
  /\ UNCHANGED <<time, slow, served>>

\* Wrong on purpose: a write that failed is renamed into place as well.
CollectFails_Bug(c) ==
  /\ Goto(c, "write", "idle", Empty)
  /\ file' = col[c].snap
  /\ UNCHANGED <<time, slow, served>>

\* A reading times out, a write fails or systemd ends the collector: the
\* published file stays, at worst a temporary one is left.
CollectFails(c) ==
  /\ col[c].pc # "idle"
  /\ col' = [col EXCEPT ![c] = Idle]
  /\ UNCHANGED <<time, slow, file, served>>

\* Wrong on purpose: the age is the time left, so nothing ever expires.
Acceptable_Bug == file.stamp <= Wall /\ file.stamp <= Wall + Fresh

\* wifi_snapshot: the stamp is neither in the future nor too old.
Acceptable == file.stamp <= Wall /\ Wall - file.stamp <= Fresh

\* admin_wifi_results and admin_wifi_status: there is a file, its format is
\* right (a piece of a snapshot may pass for one) and its stamp acceptable.
Serve ==
  /\ file # Empty
  /\ Acceptable
  /\ served' = [snap |-> file, when |-> time]
  /\ UNCHANGED <<time, slow, col, file>>

-----------------------------------------------------------------------------
\* Time passes; no collector outlives its limit.
Tick ==
  /\ time < MaxTime
  /\ \A c \in Collectors : col[c].pc # "idle" => time - col[c].snap.at < CollectMax
  /\ time' = time + 1
  /\ UNCHANGED <<slow, col, file, served>>

\* The wall clock is set back.
SetBack ==
  /\ slow' \in (slow + 1)..time
  /\ UNCHANGED <<time, col, file, served>>

Next ==
  \/ \E c \in Collectors :
       \/ ReadResults(c) \/ ReadStatus(c) \/ TakeStamp(c)
       \/ WriteTemporary(c) \/ Rename(c) \/ CollectFails(c)
  \/ Serve \/ Tick \/ SetBack

Spec == Init /\ [][Next]_vars

-----------------------------------------------------------------------------
(* Properties. *)

\* What an administrator is shown is one collector's snapshot, whole, though
\* collectors overlap, fail half-way and are killed.
ServedWhole == served.snap = Empty \/ served.snap.whole

Age == served.when - served.snap.at

\* Unless the clock is set back, what is shown was read at most Fresh and one
\* collector's run ago, even when a slow collector publishes over a newer
\* snapshot.
ServedRecent == slow = 0 => Age <= Fresh + CollectMax
===============================================================================
