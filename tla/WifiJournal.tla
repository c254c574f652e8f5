----------------------------- MODULE WifiJournal -----------------------------
(***************************************************************************)
(* The recovery journal of server/src/wifi_journal.cpp: one record, an     *)
(* exclusive non-blocking flock, and the clock (boot identity and          *)
(* CLOCK_BOOTTIME) its deadlines are read against.                         *)
(*                                                                         *)
(* save() has the same shape as NetplanFiles: "journal" is the record a    *)
(* load() returns, "jdisk" the records a power loss may leave.             *)
(***************************************************************************)
EXTENDS NetplanFiles

CONSTANTS
  Ops,         \* transactions: one WifiManagedBackend and its WifiChange each
  Supervisor,  \* the independent recovery process
  Nobody,      \* the journal lock is free
  NoTxn,       \* no journal file exists
  Cleared      \* backup erased from a resolved record

VARIABLES
  lock,        \* holder of flock(LOCK_EX)
  journal,     \* visible record
  jdisk,       \* records a power loss may leave
  boot,        \* boot identity
  now          \* CLOCK_BOOTTIME

Procs   == Ops \cup {Supervisor}
Phases  == {"None", "Pending", "Committed", "Restored"}
Records == [phase : Phases, txn : Ops \cup {NoTxn}, boot : Nat, deadline : Nat,
            prev : Files \cup {Cleared}]

ASSUME JournalAssumption ==
  /\ Supervisor \notin Ops
  /\ Nobody \notin Procs
  /\ NoTxn \notin Ops
  /\ Cleared \notin Files

\* load() reporting exists = false.
NoRecord == [phase |-> "None", txn |-> NoTxn, boot |-> 0, deadline |-> 0,
             prev |-> Cleared]

\* Wrong on purpose: a pending record of an earlier boot may be replaced.
Unresolved_ThisBoot(r) == r.phase = "Pending" /\ r.boot = boot

\* begin() and prepare() both refuse to replace a record in this phase.
Unresolved(r) == r.phase = "Pending"

\* The test shared by current(), commit() and wifi_managed_commit(): the
\* transaction is this one, of this boot, and its deadline is in the future.
Current(r, o) ==
  /\ r.phase = "Pending"
  /\ r.txn = o
  /\ r.boot = boot
  /\ now < r.deadline

\* Wrong on purpose: the deadline is compared without the boot identity.
Due_ThisBoot(r) == r.phase = "Pending" /\ r.boot = boot /\ now >= r.deadline

\* recover_due(): a pending record of another boot, or past its deadline.
Due(r) ==
  /\ r.phase = "Pending"
  /\ r.boot # boot \/ now >= r.deadline

\* Wrong on purpose: any transaction of this boot is cancelled.
Cancellable_AnyTransaction(r, o) == r.boot = boot /\ r.phase # "Committed"

\* cancel() accepts only the caller's own transaction of this boot, and never
\* a committed one.
Cancellable(r, o) ==
  /\ r.txn = o
  /\ r.boot = boot
  /\ r.phase # "Committed"

\* A resolved record no longer carries the backup.
Resolved(r, phase) == [r EXCEPT !.phase = phase, !.prev = Cleared]

\* WifiJournal::open and ~WifiJournal.
Acquire(p) == lock = Nobody /\ lock' = p
Release(p) == lock' = IF lock = p THEN Nobody ELSE lock

\* save() up to and including renameat.
JournalRename(r) ==
  /\ journal' = r
  /\ jdisk'   = jdisk \cup {r}

\* fsync of the state directory succeeds.
JournalSync ==
  /\ jdisk' = {journal}
  /\ UNCHANGED journal

JournalPowerLoss ==
  \E r \in jdisk : journal' = r /\ jdisk' = {r}
=============================================================================
