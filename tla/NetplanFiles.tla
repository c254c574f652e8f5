---------------------------- MODULE NetplanFiles ----------------------------
(***************************************************************************)
(* The managed Netplan file 90-encoder-wifi.yaml, as NetplanFiles          *)
(* (server/src/netplan_files.cpp) reads and writes it.                     *)
(*                                                                         *)
(* Every write is: temporary file, fsync, renameat, fsync of the           *)
(* directory.  The rename makes the new contents visible; only the second  *)
(* fsync makes them survive a power loss.  "file" is the visible contents, *)
(* "fdisk" the set of contents that a power loss may leave behind: it      *)
(* grows at a rename and collapses when the directory is synchronised.     *)
(* A failed fsync of the directory reports an error AFTER the rename.      *)
(***************************************************************************)
EXTENDS Naturals

CONSTANTS
  Nets,      \* WPA2 profiles (an SSID and its PSK)
  Policies,  \* DHCPv6 policies a managed file may carry
  Unset,     \* the policy of a profile that says nothing about DHCPv6
  SsidOf,    \* the SSID of each profile
  Absent     \* the managed file does not exist

VARIABLES
  file,      \* visible contents
  fdisk      \* contents a power loss may leave

Configs == [net : Nets, dhcp6 : Policies]
Files   == Configs \cup {Absent}

ASSUME NetplanAssumption ==
  /\ Unset \in Policies
  /\ Absent \notin Configs

\* Wrong on purpose: the policy of the previous file is not inherited.
Draft_ForgetsPolicy(net, previous) == [net |-> net, dhcp6 |-> Unset]

\* prepare() renders the requested profile but keeps the DHCPv6 policy of the
\* file it replaces.
Draft(net, previous) ==
  [net |-> net, dhcp6 |-> IF previous = Absent THEN Unset ELSE previous.dhcp6]

\* replace() and restore() up to and including renameat / unlinkat.
FileRename(contents) ==
  /\ file'  = contents
  /\ fdisk' = fdisk \cup {contents}

\* fsync of the directory succeeds.
FileSync ==
  /\ fdisk' = {file}
  /\ UNCHANGED file

\* What the next boot finds after a power loss.
FilePowerLoss ==
  \E f \in fdisk : file' = f /\ fdisk' = {f}
=============================================================================
