-------------------------- MODULE SecurityMonitor --------------------------
(***************************************************************************)
(* The anomaly monitor of server/src/monitor.cpp: per-user sliding         *)
(* windows, alarms with a cooldown, temporary locks and their copy in      *)
(* user_stats.db.                                                          *)
(*                                                                         *)
(* Every call reads the wall clock BEFORE it takes the mutex, so the       *)
(* bodies run in any order, with samples that may be older than the state  *)
(* they meet.  A call in progress is calls[t]; its body is one step.       *)
(* Each handler is a function from a user's statistics to the next ones.   *)
(***************************************************************************)
EXTENDS Integers, Sequences, FiniteSets, SequencesExt

CONSTANTS
  Users, Threads,
  FailedThreshold, FailedWindow,
  BulkThreshold, BulkWindow,
  BurstThreshold, BurstWindow,
  VolumeThreshold, VolumeWindow, Sizes,
  Cooldown,
  WorkStart, WorkEnd,                  \* work hours, -1 when unset
  MinSamples, HourFraction,            \* is_suspicious_hour; 1/HourFraction
  MinDecrypts, RateFactor, BytesFactor,  \* behaviour profile
  LockFailed, LockBulk, LockTime,      \* configured locks, 0 when unset
  Ladder,                              \* kLadder, seconds per strike
  MaxClock, MaxCalls, MaxRestarts      \* bounds

VARIABLES
  stats,    \* stats_
  stored,   \* what user_stats.db holds
  intact,   \* history: the last save_stats() wrote the whole file
  calls,    \* call each thread is in, with its clock sample
  clock,    \* system_clock, in seconds
  made,     \* number of calls made so far (bound)
  cleared,  \* history: when each user was last unlocked by an administrator
  restarts  \* number of restarts so far

vars == <<stats, stored, intact, calls, clock, made, cleared, restarts>>

Alarms == {"failed", "bulk", "time", "burst", "volume"}
Hours  == 0..1

ASSUME MonitorAssumption ==
  /\ {FailedWindow, BulkWindow, BurstWindow, VolumeWindow, VolumeThreshold,
      Cooldown, LockFailed, LockBulk, LockTime, MinSamples} \subseteq Nat
  /\ {WorkStart, WorkEnd} \subseteq Hours \cup {-1}
  /\ Ladder \in Seq(Nat) /\ Len(Ladder) > 0
  /\ Sizes \subseteq Nat
  /\ {MaxClock, MaxCalls, MaxRestarts} \subseteq Nat /\ Cooldown < MaxClock

NoCall == [op |-> "none"]

\* stats_[username]; a user who is not known has no entry in stats_ yet.
UserStats ==
  [known |-> FALSE, logins |-> 0, hours |-> [h \in Hours |-> 0], failed |-> <<>>, files |-> <<>>,
   decrypts |-> <<>>, sizes |-> <<>>, ops |-> 0, bytes |-> 0,
   last |-> [a \in Alarms |-> 0], strike |-> 0, until |-> 0]

HourOf(now) == now % Cardinality(Hours)

-----------------------------------------------------------------------------
(* Helpers of the handlers *)

Larger(a, b) == IF a > b THEN a ELSE b

\* The deque without the entries popped from the front as too old.  Samples can
\* be out of order, and only the front is looked at.
Prune(q, times, now, window) ==
  LET fresh == {i \in DOMAIN q : now - times[i] <= window}
  IN  IF fresh = {} THEN <<>>
      ELSE SubSeq(q, CHOOSE i \in fresh : \A j \in fresh : i <= j, Len(q))

Pushed(q, now, window) == LET p == Append(q, now) IN Prune(p, p, now, window)

WindowBytes(q) == FoldLeft(LAMBDA sum, e : sum + e.bytes, 0, q)

\* lock_ladder_sec
lock_ladder_sec(strike) ==
  Ladder[IF strike = 0 THEN 1 ELSE IF strike > Len(Ladder) THEN Len(Ladder) ELSE strike]

\* Wrong on purpose: the lock is set, not extended.
Trip_NoMax(s, alarm, configured, now) ==
  LET strike == IF configured = 0 /\ s.strike < 1000 THEN s.strike + 1 ELSE s.strike
      sec    == IF configured > 0 THEN configured ELSE lock_ladder_sec(strike)
  IN  [s EXCEPT !.last[alarm] = now, !.strike = strike, !.until = now + sec]

\* An alarm goes off: its time is remembered and the lock extended, by the
\* configured time or by the next rung of the ladder (choose_lock_duration).
Trip(s, alarm, configured, now) ==
  LET strike == IF configured = 0 /\ s.strike < 1000 THEN s.strike + 1 ELSE s.strike
      sec    == IF configured > 0 THEN configured ELSE lock_ladder_sec(strike)
  IN  [s EXCEPT !.last[alarm] = now, !.strike = strike,
                !.until = Larger(@, now + sec)]

\* The shape of all six alarms: a condition and the alarm's own cooldown.
TripIf(cond, s, alarm, configured, now) ==
  IF cond /\ now - s.last[alarm] > Cooldown
    THEN Trip(s, alarm, configured, now) ELSE s

\* Work hours may run past midnight; -1 switches them off.
is_outside_work_hours(hour) ==
  /\ WorkStart >= 0 /\ WorkEnd >= 0
  /\ IF WorkStart <= WorkEnd THEN hour < WorkStart \/ hour > WorkEnd
                            ELSE hour > WorkEnd /\ hour < WorkStart

is_suspicious_hour(s, hour) ==
  \/ is_outside_work_hours(hour)
  \/ s.logins >= MinSamples /\ s.hours[hour] * HourFraction < s.logins

-----------------------------------------------------------------------------
(* The handlers *)

\* Wrong on purpose: the strike level is decremented without looking.
record_login_success_NoFloor(s, now) ==
  LET hour == HourOf(now)
      seen == [s EXCEPT !.logins = @ + 1, !.hours[hour] = @ + 1, !.failed = <<>>,
                        !.strike = @ - 1]
  IN  TripIf(is_suspicious_hour(s, hour), seen, "time", LockTime, now)

record_login_success(s, now) ==
  LET hour == HourOf(now)
      seen == [s EXCEPT !.logins = @ + 1, !.hours[hour] = @ + 1, !.failed = <<>>,
                        !.strike = IF @ > 0 THEN @ - 1 ELSE 0]
  IN  TripIf(is_suspicious_hour(s, hour), seen, "time", LockTime, now)

\* Wrong on purpose: the alarm goes off one failure too late.
record_login_failure_Late(s, now) ==
  LET pushed == [s EXCEPT !.failed = Pushed(@, now, FailedWindow)]
  IN  TripIf(Len(pushed.failed) > FailedThreshold, pushed, "failed", LockFailed, now)

record_login_failure(s, now) ==
  LET pushed == [s EXCEPT !.failed = Pushed(@, now, FailedWindow)]
  IN  TripIf(Len(pushed.failed) >= FailedThreshold, pushed, "failed", LockFailed, now)

\* record_file_op for any operation (its callers pass count = 1).
AnyFileOp(s, now) ==
  LET pushed == [s EXCEPT !.files = Pushed(@, now, BulkWindow)]
  IN  TripIf(Len(pushed.files) >= BulkThreshold, pushed, "bulk", LockBulk, now)

\* The windows and totals that only a decryption touches.
DecryptWindows(s, now, bytes) ==
  LET sized == Append(s.sizes, [at |-> now, bytes |-> bytes]) IN
  [s EXCEPT !.ops = @ + 1, !.bytes = @ + bytes,
            !.decrypts = Pushed(@, now, BurstWindow),
            !.sizes = Prune(sized, [i \in DOMAIN sized |-> sized[i].at],
                            now, VolumeWindow)]

\* The averages are compared without division: all the factors are integers.
Deviates(s, bytes) ==
  /\ s.ops >= MinDecrypts
  /\ \/ Len(s.decrypts) * Larger(1, s.logins) > s.ops * RateFactor
     \/ bytes * s.ops > s.bytes * BytesFactor

record_decrypt(s, now, bytes) ==
  LET all    == DecryptWindows(AnyFileOp(s, now), now, bytes)
      burst  == TripIf(Len(all.decrypts) >= BurstThreshold, all, "burst", LockBulk, now)
      volume == TripIf(VolumeThreshold > 0 /\ WindowBytes(burst.sizes) >= VolumeThreshold,
                       burst, "volume", LockBulk, now)
  IN  TripIf(Deviates(volume, bytes), volume, "burst", LockTime, now)

\* The call's handler; all but unlock_user() create the entry they need.
Handled(s, c) ==
  LET e == [s EXCEPT !.known = TRUE] IN
  CASE c.op = "success" -> record_login_success(e, c.now)
    [] c.op = "failure" -> record_login_failure(e, c.now)
    [] c.op = "encrypt" -> AnyFileOp(e, c.now)
    [] c.op = "decrypt" -> record_decrypt(e, c.now, c.bytes)
    [] c.op = "unlock"  -> [s EXCEPT !.until = 0, !.strike = 0]

\* unlock_user() returns early for a user without an entry.
EarlyReturn(c) == c.op = "unlock" /\ ~stats[c.user].known

-----------------------------------------------------------------------------
(* user_stats.db *)

\* The fields save_stats() writes.  strike_level, the windows and the times of
\* the alarms are not among them.
Saved(s) == [known |-> s.known, logins |-> s.logins, hours |-> s.hours, until |-> s.until]

Loaded(e) == [UserStats EXCEPT !.known = e.known, !.logins = e.logins,
                               !.hours = e.hours, !.until = e.until]

\* save_stats() returns silently when the file cannot be opened.
save_stats ==
  \/ stored' = [u \in Users |-> Saved(stats'[u])] /\ intact' = TRUE
  \/ stored' = stored /\ intact' = FALSE

-----------------------------------------------------------------------------
(* The system *)

Init ==
  /\ stats = [u \in Users |-> UserStats]
  /\ stored = [u \in Users |-> Saved(UserStats)]
  /\ intact = TRUE
  /\ calls = [t \in Threads |-> NoCall]
  /\ clock = Cooldown + 1
  /\ made = 0
  /\ cleared = [u \in Users |-> 0]
  /\ restarts = 0

\* A thread calls the monitor and reads the clock.
Call(t, op, u, bytes) ==
  /\ calls[t] = NoCall
  /\ made < MaxCalls
  /\ made' = made + 1
  /\ calls' = [calls EXCEPT ![t] = [op |-> op, user |-> u, now |-> clock, bytes |-> bytes]]
  /\ UNCHANGED <<stats, stored, intact, clock, cleared, restarts>>

\* Wrong on purpose: unlock_user() forgets save_stats().
Body_UnlockUnsaved(t) ==
  /\ calls[t] # NoCall
  /\ LET c == calls[t] IN
       /\ stats' = [stats EXCEPT ![c.user] = Handled(@, c)]
       /\ (IF c.op = "unlock" THEN UNCHANGED <<stored, intact>> ELSE save_stats)
       /\ cleared' = IF c.op = "unlock" THEN [cleared EXCEPT ![c.user] = clock] ELSE cleared
  /\ calls' = [calls EXCEPT ![t] = NoCall]
  /\ UNCHANGED <<clock, made, restarts>>

\* It gets the mutex, runs the handler and saves.
Body(t) ==
  /\ calls[t] # NoCall
  /\ LET c == calls[t] IN
       /\ stats' = [stats EXCEPT ![c.user] = Handled(@, c)]
       /\ (IF EarlyReturn(c) THEN UNCHANGED <<stored, intact>> ELSE save_stats)
       /\ cleared' = IF c.op = "unlock" THEN [cleared EXCEPT ![c.user] = clock] ELSE cleared
  /\ calls' = [calls EXCEPT ![t] = NoCall]
  /\ UNCHANGED <<clock, made, restarts>>

Tick ==
  /\ clock < MaxClock
  /\ clock' = clock + 1
  /\ UNCHANGED <<stats, stored, intact, calls, made, cleared, restarts>>

\* The process ends outside save_stats() and is started again: load_stats().
Restart ==
  /\ restarts < MaxRestarts
  /\ restarts' = restarts + 1
  /\ stats' = [u \in Users |-> Loaded(stored[u])]
  /\ calls' = [t \in Threads |-> NoCall]
  /\ UNCHANGED <<stored, intact, clock, made, cleared>>

\* The process ends inside save_stats(), which has truncated the file and
\* written some of its lines.
DiesInSave(t) ==
  /\ restarts < MaxRestarts
  /\ calls[t] # NoCall
  /\ ~EarlyReturn(calls[t])
  /\ restarts' = restarts + 1
  /\ \E written \in SUBSET Users :
       stored' = [u \in Users |->
                    IF u \notin written THEN Saved(UserStats)
                    ELSE Saved(IF u = calls[t].user THEN Handled(stats[u], calls[t])
                                                    ELSE stats[u])]
  /\ stats' = [u \in Users |-> Loaded(stored'[u])]
  /\ intact' = FALSE
  /\ calls' = [s \in Threads |-> NoCall]
  /\ UNCHANGED <<clock, made, cleared>>

Next ==
  \/ \E t \in Threads, u \in Users :
       \/ \E op \in {"success", "failure", "encrypt", "unlock"} : Call(t, op, u, 0)
       \/ \E bytes \in Sizes : Call(t, "decrypt", u, bytes)
  \/ \E t \in Threads : Body(t) \/ DiesInSave(t)
  \/ Tick
  \/ Restart

Spec == Init /\ [][Next]_vars

-----------------------------------------------------------------------------

\* Every variable keeps its type.
TypeOK ==
  /\ \A u \in Users :
       /\ stats[u].until \in Nat /\ stats[u].strike \in 0..1000
       /\ stats[u].last \in [Alarms -> 0..MaxClock]
       /\ \A q \in {stats[u].failed, stats[u].files, stats[u].decrypts} :
            q \in Seq(0..MaxClock)
       /\ stored[u].until \in Nat
       /\ cleared[u] \in 0..MaxClock
  /\ clock \in 0..MaxClock /\ made \in 0..MaxCalls /\ restarts \in 0..MaxRestarts

\* Whatever order the bodies run in and however old their clock samples are, a
\* lock is shortened only by an administrator's unlock_user, or by a restart.
LockNeverShortened ==
  [][\A u \in Users :
       restarts' = restarts /\ stats'[u].until < stats[u].until =>
         stats'[u].until = 0 /\ cleared'[u] = clock]_stats

\* An alarm that has gone off has locked the account for at least the shortest
\* lock from the alarm's own time on, until an administrator unlocks it.
AlarmLocks ==
  LET shortest == LET l == {Ladder[i] : i \in DOMAIN Ladder}
                             \cup ({LockFailed, LockBulk, LockTime} \ {0})
                  IN  CHOOSE m \in l : \A n \in l : m <= n
  IN  \A u \in Users, a \in Alarms :
        stats[u].last[a] <= cleared[u] \/ stats[u].until >= stats[u].last[a] + shortest

\* No window stays over its threshold unnoticed: the alarm has gone off within
\* the cooldown before the newest entry.
AlarmNotMissed ==
  \A u \in Users : LET s == stats[u] IN
    /\ s.failed # <<>> /\ Len(s.failed) >= FailedThreshold =>
         Last(s.failed) - s.last["failed"] <= Cooldown
    /\ s.files # <<>> /\ Len(s.files) >= BulkThreshold =>
         Last(s.files) - s.last["bulk"] <= Cooldown
    /\ s.decrypts # <<>> /\ Len(s.decrypts) >= BurstThreshold =>
         Last(s.decrypts) - s.last["burst"] <= Cooldown
    /\ s.sizes # <<>> /\ VolumeThreshold > 0 /\ WindowBytes(s.sizes) >= VolumeThreshold =>
         Last(s.sizes).at - s.last["volume"] <= Cooldown

\* A restart neither forgets a lock nor brings back one that was lifted, unless
\* the last save_stats() failed.
RestartKeepsLocks ==
  [][restarts' # restarts /\ intact /\ intact' =>
       \A u \in Users : stats'[u].until = stats[u].until]_restarts

\* README.md, lines 94-96: a lock time of 0 disables the lock (alerts only).
ZeroDisablesLock ==
  [][\A u \in Users :
       stats'[u].last["failed"] # stats[u].last["failed"] /\ LockFailed = 0 =>
         stats'[u].until = stats[u].until]_stats
=============================================================================
