------------------------ MODULE SecurityMonitorProofs ------------------------
(***************************************************************************)
(* The safety of SecurityMonitor, for any thresholds, windows, locks and   *)
(* ladder, and any interleaving of the handlers.                           *)
(***************************************************************************)
EXTENDS SecurityMonitor, SequenceTheorems, FiniteSetTheorems, WellFoundedInduction,
        NaturalsInduction, TLAPS

\* The entries of the window of decrypted sizes, none later than k.
Entries(k) == [at : 0..k, bytes : Nat]

\* The statistics of one user, with no time in them later than k.
StatsUpTo(k) ==
  [known : BOOLEAN, logins : Nat, hours : [Hours -> Nat],
   failed : Seq(0..k), files : Seq(0..k), decrypts : Seq(0..k),
   sizes : Seq(Entries(k)), ops : Nat, bytes : Nat,
   last : [Alarms -> 0..k], strike : 0..1000, until : Nat]

\* A line of user_stats.db: a user without an entry is not locked.
SavedType ==
  {e \in [known : BOOLEAN, logins : Nat, hours : [Hours -> Nat], until : Nat] :
     e.known \/ e.until = 0}

\* A call of the monitor, sampled not later than k.
CallsUpTo(k) ==
  [op : {"success", "failure", "encrypt", "decrypt", "unlock"}, user : Users,
   now : 0..k, bytes : Nat]

\* Every time in the monitor has passed.
MonitorTypes ==
  /\ stats \in [Users -> StatsUpTo(clock)]
  /\ stored \in [Users -> SavedType]
  /\ intact \in BOOLEAN
  /\ calls \in [Threads -> CallsUpTo(clock) \cup {NoCall}]
  /\ clock \in 0..MaxClock /\ made \in 0..MaxCalls /\ restarts \in 0..MaxRestarts
  /\ cleared \in [Users -> 0..clock]

-----------------------------------------------------------------------------
(* Numbers and windows *)

\* The lengths of the windows are natural numbers.
LEMMA WindowLengths ==
  FailedWindow \in Nat /\ BulkWindow \in Nat /\ BurstWindow \in Nat /\ VolumeWindow \in Nat
  BY MonitorAssumption

\* So are the configured locks.
LEMMA LockLengths ==
  LockFailed \in Nat /\ LockBulk \in Nat /\ LockTime \in Nat
  BY MonitorAssumption

\* So are the bounds of a run.
LEMMA RunBounds ==
  MaxClock \in Nat /\ MaxCalls \in Nat /\ MaxRestarts \in Nat
  BY MonitorAssumption

\* A set of natural numbers has a least element.
LEMMA Least ==
  ASSUME NEW T \in SUBSET Nat, T # {}
  PROVE  \E m \in T : \A n \in T : m <= n
  <1> DEFINE R == OpToRel(<, Nat)
  <1>1. PICK x \in T : \A y \in T : ~ (<<y, x>> \in R)
    BY NatLessThanWellFounded, WFMin
  <1>2. \A y \in Nat : y < x => <<y, x>> \in R
    BY DEF OpToRel
  <1> HIDE DEF R
  <1>3. ASSUME NEW y \in T
        PROVE  x <= y
    <2>1. x \in Nat /\ y \in Nat
      OBVIOUS
    <2>2. ~ (<<y, x>> \in R)
      BY <1>1
    <2>3. ~ (y < x)
      BY <1>2, <2>1, <2>2
    <2> QED BY <2>1, <2>3
  <1> QED BY <1>3

\* A window to which the sample now was just added keeps it as its last entry,
\* and every entry it keeps is one it had.
LEMMA PruneKeepsLast ==
  ASSUME NEW S, NEW q \in Seq(S), q # <<>>, NEW times, NEW now \in Nat,
         NEW window \in Nat, \A i \in 1..Len(q) : times[i] \in Nat,
         times[Len(q)] = now
  PROVE  /\ Prune(q, times, now, window) \in Seq(S)
         /\ Prune(q, times, now, window) # <<>>
         /\ Last(Prune(q, times, now, window)) = q[Len(q)]
  <1> DEFINE fresh == {i \in DOMAIN q : now - times[i] <= window}
             first == CHOOSE i \in fresh : \A j \in fresh : i <= j
             kept == SubSeq(q, first, Len(q))
  <1>1. Len(q) \in Nat \ {0} /\ DOMAIN q = 1..Len(q) /\ \A i \in 1..Len(q) : q[i] \in S
    BY EmptySeq, LenProperties, ElementOfSeq
  <1>2. Len(q) \in fresh /\ fresh \in SUBSET Nat
    BY <1>1
  <1>3. \E i \in fresh : \A j \in fresh : i <= j
    BY <1>2, Least
  <1>4. first \in fresh
    BY <1>3
  <1>5. first \in 1..Len(q)
    BY <1>1, <1>4
  <1>6. Prune(q, times, now, window) = kept
    BY <1>2 DEF Prune
  <1> HIDE DEF first, fresh
  <1>7. \A i \in first..Len(q) : q[i] \in S
    BY <1>1, <1>5
  <1>8. /\ kept \in Seq(S) /\ Len(kept) = Len(q) - first + 1
        /\ \A i \in 1..(Len(q) - first + 1) : kept[i] = q[first + i - 1]
    BY <1>1, <1>5, <1>7, SubSeqProperties
  <1> HIDE DEF kept
  <1>9. kept[Len(kept)] = q[Len(q)]
    BY <1>1, <1>5, <1>8
  <1>10. kept # <<>>
    BY <1>1, <1>5, <1>8
  <1> QED BY <1>6, <1>8, <1>9, <1>10 DEF Last

\* The newest entry of a window.
LEMMA LastIn ==
  ASSUME NEW S, NEW q \in Seq(S), q # <<>>
  PROVE  Last(q) \in S
  BY EmptySeq, ElementOfSeq DEF Last

\* What pushing a sample into a window of samples does.
LEMMA PushedWindow ==
  ASSUME NEW k \in Nat, NEW q \in Seq(0..k), NEW now \in 0..k, NEW window \in Nat
  PROVE  /\ Pushed(q, now, window) \in Seq(0..k)
         /\ Pushed(q, now, window) # <<>>
         /\ Last(Pushed(q, now, window)) = now
  <1> DEFINE p == Append(q, now)
  <1>1. /\ p \in Seq(0..k) /\ p # <<>> /\ Len(p) = Len(q) + 1 /\ Len(q) \in Nat
        /\ p[Len(q) + 1] = now
    BY AppendProperties, LenProperties
  <1>2. now \in Nat /\ p[Len(p)] = now /\ \A i \in 1..Len(p) : p[i] \in Nat
    BY <1>1, ElementOfSeq
  <1> HIDE DEF p
  <1>3. /\ Prune(p, p, now, window) \in Seq(0..k) /\ Prune(p, p, now, window) # <<>>
        /\ Last(Prune(p, p, now, window)) = now
    BY <1>1, <1>2, PruneKeepsLast
  <1> QED BY <1>3 DEF Pushed, p

\* What DecryptWindows does to the window of decrypted sizes.
SizedPushed(q, now, bytes) ==
  LET sized == Append(q, [at |-> now, bytes |-> bytes])
  IN  Prune(sized, [i \in DOMAIN sized |-> sized[i].at], now, VolumeWindow)

\* The same for that window.
LEMMA SizedWindow ==
  ASSUME NEW k \in Nat, NEW q \in Seq(Entries(k)), NEW now \in 0..k,
         NEW bytes \in Nat
  PROVE  /\ SizedPushed(q, now, bytes) \in Seq(Entries(k))
         /\ SizedPushed(q, now, bytes) # <<>>
         /\ Last(SizedPushed(q, now, bytes)).at = now
  <1> DEFINE E == Entries(k)
             e == [at |-> now, bytes |-> bytes]
             sized == Append(q, e)
             times == [i \in DOMAIN sized |-> sized[i].at]
             p == Prune(sized, times, now, VolumeWindow)
  <1>1. e \in E /\ e.at = now /\ now \in Nat /\ VolumeWindow \in Nat
    BY MonitorAssumption DEF Entries
  <1>2. q \in Seq(E) /\ \A x \in E : x.at \in Nat
    BY DEF Entries
  <1> HIDE DEF e, E
  <1>3. /\ sized \in Seq(E) /\ sized # <<>> /\ Len(sized) = Len(q) + 1 /\ Len(q) \in Nat
        /\ sized[Len(q) + 1] = e /\ DOMAIN sized = 1..Len(sized)
    BY <1>1, <1>2, AppendProperties, LenProperties
  <1> HIDE DEF sized
  <1>4. \A i \in 1..Len(sized) : times[i] = sized[i].at /\ sized[i] \in E
    BY <1>3, ElementOfSeq
  <1>5. \A i \in 1..Len(sized) : times[i] \in Nat
    BY <1>4, <1>2
  <1>6. times[Len(sized)] = now
    BY <1>1, <1>3, <1>4
  <1> HIDE DEF times
  <1>7. p \in Seq(E) /\ p # <<>> /\ Last(p) = sized[Len(sized)]
    BY <1>1, <1>3, <1>5, <1>6, PruneKeepsLast, ZenonT(60)
  <1>8. p = SizedPushed(q, now, bytes)
    BY DEF SizedPushed, times, sized, e
  <1>9. Last(p).at = now
    BY <1>1, <1>3, <1>7
  <1> QED BY <1>7, <1>8, <1>9 DEF E

-----------------------------------------------------------------------------
(* Locks and alarms of one user *)

\* The locks an alarm can set.
Locks == {Ladder[i] : i \in DOMAIN Ladder} \cup ({LockFailed, LockBulk, LockTime} \ {0})

Shortest == CHOOSE m \in Locks : \A n \in Locks : m <= n

\* No lock is shorter than the shortest.
LEMMA ShortestLock ==
  /\ Locks \in SUBSET Nat /\ Shortest \in Nat
  /\ \A n \in Locks : Shortest <= n
  <1>1. /\ Ladder \in Seq(Nat) /\ Len(Ladder) \in Nat \ {0} /\ DOMAIN Ladder = 1..Len(Ladder)
        /\ \A i \in DOMAIN Ladder : Ladder[i] \in Nat
    <2>1. Ladder \in Seq(Nat) /\ Len(Ladder) > 0
      BY MonitorAssumption
    <2> QED BY <2>1, LenProperties, ElementOfSeq
  <1>2. {LockFailed, LockBulk, LockTime} \subseteq Nat
    BY LockLengths
  <1>3. Locks \in SUBSET Nat /\ Locks # {}
    <2>1. \A n \in Locks : n \in Nat
      BY <1>1, <1>2 DEF Locks
    <2>2. 1 \in DOMAIN Ladder
      BY <1>1
    <2>3. Ladder[1] \in Locks
      BY <2>2 DEF Locks
    <2> QED BY <2>1, <2>3
  <1>4. \E m \in Locks : \A n \in Locks : m <= n
    BY <1>3, Least
  <1>5. Shortest \in Locks /\ \A n \in Locks : Shortest <= n
    BY <1>4 DEF Shortest
  <1> QED BY <1>3, <1>5

\* lock_ladder_sec stays on the ladder for every strike level.
LEMMA LadderLock ==
  ASSUME NEW strike \in Nat
  PROVE  lock_ladder_sec(strike) \in Locks
  <1> DEFINE i == IF strike = 0 THEN 1
                  ELSE IF strike > Len(Ladder) THEN Len(Ladder) ELSE strike
  <1>1. Len(Ladder) \in Nat \ {0} /\ DOMAIN Ladder = 1..Len(Ladder)
    BY MonitorAssumption, LenProperties
  <1>2. i \in DOMAIN Ladder
    BY <1>1
  <1>3. lock_ladder_sec(strike) = Ladder[i]
    BY DEF lock_ladder_sec
  <1> QED BY <1>2, <1>3 DEF Locks

\* A handler that sampled the clock at now takes a user from s to r: the lock
\* is not shortened, and an alarm that goes off locks from now on.
Extends(s, r, now) ==
  /\ r.until >= s.until
  /\ \A a \in Alarms :
       /\ r.last[a] >= s.last[a]
       /\ r.last[a] = s.last[a] \/ (r.last[a] = now /\ r.until >= now + Shortest)

\* The windows of a user.
SameWindows(s, r) ==
  /\ r.known = s.known /\ r.failed = s.failed /\ r.files = s.files
  /\ r.decrypts = s.decrypts /\ r.sizes = s.sizes

\* An alarm goes off.
LEMMA TripFacts ==
  ASSUME NEW k \in Nat, NEW s \in StatsUpTo(k), NEW alarm \in Alarms,
         NEW configured \in {LockFailed, LockBulk, LockTime}, NEW now \in 0..k
  PROVE  /\ Trip(s, alarm, configured, now) \in StatsUpTo(k)
         /\ SameWindows(s, Trip(s, alarm, configured, now))
         /\ Trip(s, alarm, configured, now).last = [s.last EXCEPT ![alarm] = now]
         /\ Trip(s, alarm, configured, now).until >= s.until
         /\ Trip(s, alarm, configured, now).until >= now + Shortest
  <1> DEFINE strike == IF configured = 0 /\ s.strike < 1000 THEN s.strike + 1 ELSE s.strike
             sec == IF configured > 0 THEN configured ELSE lock_ladder_sec(strike)
             until == Larger(s.until, now + sec)
             last == [s.last EXCEPT ![alarm] = now]
             r == [s EXCEPT !.last = last, !.strike = strike, !.until = until]
  <1>1. /\ s.strike \in 0..1000 /\ s.until \in Nat /\ s.last \in [Alarms -> 0..k]
        /\ configured \in Nat /\ now \in Nat
    <2>1. s.strike \in 0..1000 /\ s.until \in Nat /\ s.last \in [Alarms -> 0..k]
      BY DEF StatsUpTo
    <2>2. configured \in Nat
      BY LockLengths
    <2> QED BY <2>1, <2>2
  <1>2. strike \in 0..1000
    <2>1. PICK n \in 0..1000 : n = s.strike
      BY <1>1
    <2>2. n < 1000 => n + 1 \in 0..1000
      OBVIOUS
    <2> QED BY ONLY <2>1, <2>2
  <1>3. Trip(s, alarm, configured, now) = r
    BY DEF Trip
  <1> HIDE DEF strike
  <1>4. sec \in Locks
    <2>1. CASE configured > 0
      BY <1>1, <2>1 DEF Locks
    <2>2. CASE ~(configured > 0)
      <3>1. strike \in Nat
        BY <1>2
      <3> QED BY <2>2, <3>1, LadderLock
    <2> QED BY <2>1, <2>2
  <1> HIDE DEF sec
  <1>5. sec \in Nat /\ Shortest <= sec /\ Shortest \in Nat
    BY <1>4, ShortestLock
  <1>6. until \in Nat /\ until >= s.until /\ until >= now + Shortest
    BY <1>1, <1>5 DEF Larger
  <1>7. last \in [Alarms -> 0..k]
    BY <1>1
  <1> HIDE DEF until, last
  <1>8. r \in StatsUpTo(k)
    BY <1>2, <1>6, <1>7, ZenonT(60) DEF StatsUpTo
  <1>9. SameWindows(s, r) /\ r.last = last /\ r.until = until
    BY DEF StatsUpTo, SameWindows
  <1> QED BY <1>3, <1>6, <1>8, <1>9 DEF last

\* The shape of all six alarms: whatever the condition, the lock only grows,
\* and if it holds the alarm has gone off within the cooldown.
LEMMA TripIfFacts ==
  ASSUME NEW k \in Nat, NEW s \in StatsUpTo(k), NEW alarm \in Alarms,
         NEW configured \in {LockFailed, LockBulk, LockTime}, NEW now \in 0..k,
         NEW cond
  PROVE  /\ TripIf(cond, s, alarm, configured, now) \in StatsUpTo(k)
         /\ SameWindows(s, TripIf(cond, s, alarm, configured, now))
         /\ Extends(s, TripIf(cond, s, alarm, configured, now), now)
         /\ cond => now - TripIf(cond, s, alarm, configured, now).last[alarm] <= Cooldown
  <1> DEFINE t == Trip(s, alarm, configured, now)
             r == TripIf(cond, s, alarm, configured, now)
  <1>1. /\ s.until \in Nat /\ s.last \in [Alarms -> 0..k] /\ \A a \in Alarms : s.last[a] \in 0..k
    BY DEF StatsUpTo
  <1>2. now \in Nat /\ Cooldown \in Nat /\ Shortest \in Nat
    BY MonitorAssumption, ShortestLock
  <1>3. CASE cond /\ now - s.last[alarm] > Cooldown
    <2>1. r = t
      BY <1>3 DEF TripIf
    <2>2. /\ t \in StatsUpTo(k) /\ SameWindows(s, t) /\ t.last = [s.last EXCEPT ![alarm] = now]
          /\ t.until >= s.until /\ t.until >= now + Shortest
      BY TripFacts
    <2> HIDE DEF t, r
    <2>3. /\ t.last[alarm] = now /\ \A a \in Alarms \ {alarm} : t.last[a] = s.last[a]
      BY <1>1, <2>2
    <2>4. now >= s.last[alarm] /\ now - now <= Cooldown
      BY <1>1, <1>2, <1>3
    <2>5. \A a \in Alarms : s.last[a] >= s.last[a]
      BY <1>1
    <2>6. Extends(s, t, now)
      BY <2>2, <2>3, <2>4, <2>5 DEF Extends
    <2> QED BY <2>1, <2>2, <2>3, <2>4, <2>6 DEF r
  <1>4. CASE ~(cond /\ now - s.last[alarm] > Cooldown)
    <2>1. r = s
      BY <1>4 DEF TripIf
    <2>2. SameWindows(s, s)
      BY DEF SameWindows
    <2>3. Extends(s, s, now)
      BY <1>1 DEF Extends
    <2>4. cond => now - s.last[alarm] <= Cooldown
      BY <1>1, <1>2, <1>4
    <2> HIDE DEF r
    <2> QED BY <2>1, <2>2, <2>3, <2>4 DEF r
  <1> QED BY <1>3, <1>4

\* No window of s is over its threshold unnoticed.
FailedHeard(s) ==
  s.failed # <<>> /\ Len(s.failed) >= FailedThreshold =>
    Last(s.failed) - s.last["failed"] <= Cooldown
BulkHeard(s) ==
  s.files # <<>> /\ Len(s.files) >= BulkThreshold =>
    Last(s.files) - s.last["bulk"] <= Cooldown
BurstHeard(s) ==
  s.decrypts # <<>> /\ Len(s.decrypts) >= BurstThreshold =>
    Last(s.decrypts) - s.last["burst"] <= Cooldown
VolumeHeard(s) ==
  s.sizes # <<>> /\ VolumeThreshold > 0 /\ WindowBytes(s.sizes) >= VolumeThreshold =>
    Last(s.sizes).at - s.last["volume"] <= Cooldown
Heard(s) == FailedHeard(s) /\ BulkHeard(s) /\ BurstHeard(s) /\ VolumeHeard(s)

\* The account is locked from every alarm not lifted since, for the shortest
\* lock at least.
Locked(s, lifted) ==
  \A a \in Alarms : s.last[a] <= lifted \/ s.until >= s.last[a] + Shortest

\* What the handlers preserve of one user, last unlocked at lifted.
Sound(s, lifted) == (s.known \/ s.until = 0) /\ Heard(s) /\ Locked(s, lifted)

UsersSound == \A u \in Users : Sound(stats[u], cleared[u])

\* After a complete save the file has the locks of the memory.
FileHasLocks == intact => \A u \in Users : stored[u].until = stats[u].until

\* The inductive invariant.
IInv == MonitorTypes /\ UsersSound /\ FileHasLocks

\* A later alarm leaves a window as well heard as it was.
LEMMA HeardStays ==
  ASSUME NEW k \in Nat, NEW s \in StatsUpTo(k), NEW r \in StatsUpTo(k), NEW now,
         Extends(s, r, now)
  PROVE  /\ r.failed = s.failed /\ FailedHeard(s) => FailedHeard(r)
         /\ r.files = s.files /\ BulkHeard(s) => BulkHeard(r)
         /\ r.decrypts = s.decrypts /\ BurstHeard(s) => BurstHeard(r)
         /\ r.sizes = s.sizes /\ VolumeHeard(s) => VolumeHeard(r)
  <1>1. \A a \in Alarms : /\ s.last[a] \in Nat /\ r.last[a] \in Nat
                          /\ r.last[a] >= s.last[a]
    BY DEF StatsUpTo, Extends
  <1>2. {"failed", "bulk", "burst", "volume"} \subseteq Alarms
    BY DEF Alarms
  <1>3. ASSUME NEW q \in Seq(Nat), q # <<>>
        PROVE  Last(q) \in Nat
    BY <1>3, LastIn
  <1>4. ASSUME NEW q \in Seq(Entries(k)), q # <<>>
        PROVE  Last(q).at \in Nat
    <2> DEFINE E == Entries(k)
    <2>1. \A x \in E : x.at \in Nat
      BY DEF Entries
    <2>2. q \in Seq(E)
      OBVIOUS
    <2> HIDE DEF E
    <2>3. Last(q) \in E
      BY <1>4, <2>2, LastIn
    <2> QED BY <2>1, <2>3
  <1>5. ASSUME NEW q \in Seq(0..k)
        PROVE  q \in Seq(Nat)
    BY SeqMonotonic
  <1>6. /\ s.failed \in Seq(0..k) /\ s.files \in Seq(0..k) /\ s.decrypts \in Seq(0..k)
        /\ s.sizes \in Seq(Entries(k))
    BY DEF StatsUpTo
  <1>7. /\ s.failed # <<>> => Last(s.failed) \in Nat
        /\ s.files # <<>> => Last(s.files) \in Nat
        /\ s.decrypts # <<>> => Last(s.decrypts) \in Nat
        /\ s.sizes # <<>> => Last(s.sizes).at \in Nat
    BY <1>3, <1>4, <1>5, <1>6
  <1>8. Cooldown \in Nat
    BY MonitorAssumption
  <1>9. r.failed = s.failed /\ FailedHeard(s) => FailedHeard(r)
    BY <1>1, <1>2, <1>7, <1>8 DEF FailedHeard
  <1>10. r.files = s.files /\ BulkHeard(s) => BulkHeard(r)
    BY <1>1, <1>2, <1>7, <1>8 DEF BulkHeard
  <1>11. r.decrypts = s.decrypts /\ BurstHeard(s) => BurstHeard(r)
    BY <1>1, <1>2, <1>7, <1>8 DEF BurstHeard
  <1>12. r.sizes = s.sizes /\ VolumeHeard(s) => VolumeHeard(r)
    BY <1>1, <1>2, <1>7, <1>8 DEF VolumeHeard
  <1> QED BY <1>9, <1>10, <1>11, <1>12

\* Extending twice is extending.
LEMMA ExtendsTwice ==
  ASSUME NEW k \in Nat, NEW s \in StatsUpTo(k), NEW q \in StatsUpTo(k),
         NEW r \in StatsUpTo(k), NEW now \in 0..k, Extends(s, q, now), Extends(q, r, now)
  PROVE  Extends(s, r, now)
  <1>1. /\ s.until \in Nat /\ q.until \in Nat /\ r.until \in Nat
        /\ \A a \in Alarms : s.last[a] \in Nat /\ q.last[a] \in Nat /\ r.last[a] \in Nat
    BY DEF StatsUpTo
  <1>2. Shortest \in Nat /\ now \in Nat
    BY ShortestLock
  <1>3. s.until <= q.until /\ q.until <= r.until /\ s.until <= r.until
    BY <1>1 DEF Extends
  <1>4. ASSUME NEW a \in Alarms
        PROVE  /\ r.last[a] >= s.last[a]
               /\ r.last[a] = s.last[a] \/ (r.last[a] = now /\ r.until >= now + Shortest)
    <2>1. s.last[a] <= q.last[a] /\ q.last[a] <= r.last[a]
      BY <1>1 DEF Extends
    <2>2. q.last[a] = s.last[a] \/ (q.last[a] = now /\ q.until >= now + Shortest)
      BY DEF Extends
    <2>3. r.last[a] = q.last[a] \/ (r.last[a] = now /\ r.until >= now + Shortest)
      BY DEF Extends
    <2> QED BY <1>1, <1>2, <1>3, <2>1, <2>2, <2>3
  <1> QED BY <1>1, <1>3, <1>4 DEF Extends

\* Statistics with the same locks and alarms extend each other.
LEMMA ExtendsSame ==
  ASSUME NEW k \in Nat, NEW s \in StatsUpTo(k), NEW r, NEW now,
         r.until = s.until, r.last = s.last
  PROVE  Extends(s, r, now)
  BY DEF Extends, StatsUpTo

\* record_login_failure pushes into its window and sounds its alarm.
LEMMA LoginFailureFacts ==
  ASSUME NEW k \in Nat, NEW s \in StatsUpTo(k), NEW now \in 0..k
  PROVE  /\ record_login_failure(s, now) \in StatsUpTo(k)
         /\ Extends(s, record_login_failure(s, now), now)
         /\ Heard(s) => Heard(record_login_failure(s, now))
         /\ record_login_failure(s, now).known = s.known
  <1> DEFINE w == Pushed(s.failed, now, FailedWindow)
             p == [s EXCEPT !.failed = w]
             r == TripIf(Len(p.failed) >= FailedThreshold, p, "failed", LockFailed, now)
  <1>1. record_login_failure(s, now) = r
    BY DEF record_login_failure
  <1>2. s.failed \in Seq(0..k)
    BY DEF StatsUpTo
  <1>3. w \in Seq(0..k) /\ w # <<>> /\ Last(w) = now
    <2>1. PICK q \in Seq(0..k) : q = s.failed
      BY <1>2
    <2>2. FailedWindow \in Nat
      BY WindowLengths
    <2>3. Pushed(q, now, FailedWindow) \in Seq(0..k)
      BY <2>2, PushedWindow
    <2>4. Pushed(q, now, FailedWindow) # <<>>
      BY <2>2, PushedWindow
    <2>5. Last(Pushed(q, now, FailedWindow)) = now
      BY <2>2, PushedWindow
    <2> QED BY <2>1, <2>3, <2>4, <2>5
  <1> HIDE DEF w
  <1>4. /\ p \in StatsUpTo(k) /\ p.failed = w /\ p.until = s.until /\ p.last = s.last
        /\ p.files = s.files /\ p.decrypts = s.decrypts /\ p.sizes = s.sizes
        /\ p.known = s.known
    BY <1>3, ZenonT(60) DEF StatsUpTo
  <1> HIDE DEF p
  <1>5. /\ r \in StatsUpTo(k) /\ SameWindows(p, r) /\ Extends(p, r, now)
        /\ Len(p.failed) >= FailedThreshold => now - r.last["failed"] <= Cooldown
    BY <1>4, TripIfFacts DEF Alarms
  <1> HIDE DEF r
  <1>6. Extends(s, p, now)
    BY <1>4, ExtendsSame
  <1>7. Extends(s, r, now)
    BY <1>4, <1>5, <1>6, ExtendsTwice
  <1>8. FailedHeard(r)
    BY <1>3, <1>4, <1>5 DEF FailedHeard, SameWindows
  <1>9. Heard(s) => Heard(r)
    BY <1>4, <1>5, <1>7, <1>8, HeardStays DEF Heard, SameWindows
  <1> QED BY <1>1, <1>4, <1>5, <1>7, <1>9 DEF SameWindows

\* record_login_success empties the window of failures.
LEMMA LoginSuccessFacts ==
  ASSUME NEW k \in Nat, NEW s \in StatsUpTo(k), NEW now \in 0..k
  PROVE  /\ record_login_success(s, now) \in StatsUpTo(k)
         /\ Extends(s, record_login_success(s, now), now)
         /\ Heard(s) => Heard(record_login_success(s, now))
         /\ record_login_success(s, now).known = s.known
  <1> DEFINE hour == HourOf(now)
             hours == [s.hours EXCEPT ![hour] = @ + 1]
             strike == IF s.strike > 0 THEN s.strike - 1 ELSE 0
             logins == s.logins + 1
             p == [s EXCEPT !.logins = logins, !.hours = hours, !.failed = <<>>,
                            !.strike = strike]
             r == TripIf(is_suspicious_hour(s, hour), p, "time", LockTime, now)
  <1>1. record_login_success(s, now) = r
    BY DEF record_login_success
  <1>2. /\ s.hours \in [Hours -> Nat] /\ s.strike \in 0..1000 /\ s.logins \in Nat
    BY DEF StatsUpTo
  <1>3. hour \in Hours
    <2>1. Cardinality(0..1) = IF 0 > 1 THEN 0 ELSE 1 - 0 + 1
      BY FS_Interval, 0 \in Int, 1 \in Int, Zenon
    <2> QED BY <2>1 DEF HourOf, Hours
  <1> HIDE DEF hour
  <1>4. hours \in [Hours -> Nat]
    BY <1>2, <1>3
  <1>5. strike \in 0..1000 /\ logins \in Nat
    BY <1>2
  <1>6. <<>> \in Seq(0..k)
    BY EmptySeq
  <1> HIDE DEF hours, strike, logins
  <1>7. /\ p \in StatsUpTo(k) /\ p.failed = <<>> /\ p.until = s.until /\ p.last = s.last
        /\ p.files = s.files /\ p.decrypts = s.decrypts /\ p.sizes = s.sizes
        /\ p.known = s.known
    BY <1>4, <1>5, <1>6, ZenonT(60) DEF StatsUpTo
  <1> HIDE DEF p
  <1>8. /\ r \in StatsUpTo(k) /\ SameWindows(p, r) /\ Extends(p, r, now)
    BY <1>7, TripIfFacts DEF Alarms
  <1> HIDE DEF r
  <1>9. Extends(s, p, now)
    BY <1>7, ExtendsSame
  <1>10. Extends(s, r, now)
    BY <1>7, <1>8, <1>9, ExtendsTwice
  <1>11. FailedHeard(r)
    BY <1>7, <1>8 DEF FailedHeard, SameWindows
  <1>12. Heard(s) => Heard(r)
    BY <1>7, <1>8, <1>10, <1>11, HeardStays DEF Heard, SameWindows
  <1> QED BY <1>1, <1>7, <1>8, <1>10, <1>12 DEF SameWindows

\* record_file_op pushes into the window of all operations.
LEMMA AnyFileOpFacts ==
  ASSUME NEW k \in Nat, NEW s \in StatsUpTo(k), NEW now \in 0..k
  PROVE  /\ AnyFileOp(s, now) \in StatsUpTo(k)
         /\ Extends(s, AnyFileOp(s, now), now)
         /\ Heard(s) => Heard(AnyFileOp(s, now))
         /\ AnyFileOp(s, now).known = s.known
  <1> DEFINE w == Pushed(s.files, now, BulkWindow)
             p == [s EXCEPT !.files = w]
             r == TripIf(Len(p.files) >= BulkThreshold, p, "bulk", LockBulk, now)
  <1>1. AnyFileOp(s, now) = r
    BY DEF AnyFileOp
  <1>2. s.files \in Seq(0..k)
    BY DEF StatsUpTo
  <1>3. w \in Seq(0..k) /\ w # <<>> /\ Last(w) = now
    <2>1. PICK q \in Seq(0..k) : q = s.files
      BY <1>2
    <2>2. BulkWindow \in Nat
      BY WindowLengths
    <2>3. Pushed(q, now, BulkWindow) \in Seq(0..k)
      BY <2>2, PushedWindow
    <2>4. Pushed(q, now, BulkWindow) # <<>>
      BY <2>2, PushedWindow
    <2>5. Last(Pushed(q, now, BulkWindow)) = now
      BY <2>2, PushedWindow
    <2> QED BY <2>1, <2>3, <2>4, <2>5
  <1> HIDE DEF w
  <1>4. /\ p \in StatsUpTo(k) /\ p.files = w /\ p.until = s.until /\ p.last = s.last
        /\ p.failed = s.failed /\ p.decrypts = s.decrypts /\ p.sizes = s.sizes
        /\ p.known = s.known
    BY <1>3, ZenonT(60) DEF StatsUpTo
  <1> HIDE DEF p
  <1>5. /\ r \in StatsUpTo(k) /\ SameWindows(p, r) /\ Extends(p, r, now)
        /\ Len(p.files) >= BulkThreshold => now - r.last["bulk"] <= Cooldown
    BY <1>4, TripIfFacts DEF Alarms
  <1> HIDE DEF r
  <1>6. Extends(s, p, now)
    BY <1>4, ExtendsSame
  <1>7. Extends(s, r, now)
    BY <1>4, <1>5, <1>6, ExtendsTwice
  <1>8. BulkHeard(r)
    BY <1>3, <1>4, <1>5 DEF BulkHeard, SameWindows
  <1>9. Heard(s) => Heard(r)
    BY <1>4, <1>5, <1>7, <1>8, HeardStays DEF Heard, SameWindows
  <1> QED BY <1>1, <1>4, <1>5, <1>7, <1>9 DEF SameWindows

\* The windows of a decryption get the sample, and nothing else moves.
LEMMA DecryptWindowsFacts ==
  ASSUME NEW k \in Nat, NEW s \in StatsUpTo(k), NEW now \in 0..k, NEW bytes \in Nat
  PROVE  /\ DecryptWindows(s, now, bytes) \in StatsUpTo(k)
         /\ DecryptWindows(s, now, bytes).until = s.until
         /\ DecryptWindows(s, now, bytes).last = s.last
         /\ DecryptWindows(s, now, bytes).known = s.known
         /\ DecryptWindows(s, now, bytes).failed = s.failed
         /\ DecryptWindows(s, now, bytes).files = s.files
         /\ DecryptWindows(s, now, bytes).decrypts # <<>>
         /\ Last(DecryptWindows(s, now, bytes).decrypts) = now
         /\ DecryptWindows(s, now, bytes).sizes # <<>>
         /\ Last(DecryptWindows(s, now, bytes).sizes).at = now
  <1> DEFINE d == Pushed(s.decrypts, now, BurstWindow)
             z == SizedPushed(s.sizes, now, bytes)
             ops == s.ops + 1
             total == s.bytes + bytes
             p == [s EXCEPT !.ops = ops, !.bytes = total, !.decrypts = d, !.sizes = z]
  <1>1. DecryptWindows(s, now, bytes) = p
    BY DEF DecryptWindows, SizedPushed
  <1>2. /\ s.decrypts \in Seq(0..k) /\ s.sizes \in Seq(Entries(k))
        /\ s.ops \in Nat /\ s.bytes \in Nat
    BY DEF StatsUpTo
  <1>3. d \in Seq(0..k) /\ d # <<>> /\ Last(d) = now
    <2> HIDE DEF p, z, ops, total
    <2>1. BurstWindow \in Nat
      BY MonitorAssumption
    <2>2. ASSUME NEW q \in Seq(0..k)
          PROVE  /\ Pushed(q, now, BurstWindow) \in Seq(0..k)
                 /\ Pushed(q, now, BurstWindow) # <<>>
                 /\ Last(Pushed(q, now, BurstWindow)) = now
      <3>1. Pushed(q, now, BurstWindow) \in Seq(0..k)
        BY <2>1, PushedWindow
      <3>2. Pushed(q, now, BurstWindow) # <<>>
        BY <2>1, PushedWindow
      <3>3. Last(Pushed(q, now, BurstWindow)) = now
        BY <2>1, PushedWindow
      <3> QED BY <3>1, <3>2, <3>3
    <2> QED BY <1>2, <2>2
  <1>4. z \in Seq(Entries(k)) /\ z # <<>> /\ Last(z).at = now
    <2> HIDE DEF p, d, ops, total
    <2>1. ASSUME NEW q \in Seq(Entries(k))
          PROVE  /\ SizedPushed(q, now, bytes) \in Seq(Entries(k))
                 /\ SizedPushed(q, now, bytes) # <<>>
                 /\ Last(SizedPushed(q, now, bytes)).at = now
      <3>1. SizedPushed(q, now, bytes) \in Seq(Entries(k))
        BY SizedWindow
      <3>2. SizedPushed(q, now, bytes) # <<>>
        BY SizedWindow
      <3>3. Last(SizedPushed(q, now, bytes)).at = now
        BY SizedWindow
      <3> QED BY <3>1, <3>2, <3>3
    <2> QED BY <1>2, <2>1
  <1>5. ops \in Nat /\ total \in Nat
    BY <1>2
  <1> HIDE DEF d, z, ops, total
  <1>6. p \in StatsUpTo(k)
    BY <1>3, <1>4, <1>5, ZenonT(60) DEF StatsUpTo
  <1>7. /\ p.until = s.until /\ p.last = s.last /\ p.known = s.known
        /\ p.failed = s.failed /\ p.files = s.files /\ p.decrypts = d /\ p.sizes = z
    BY DEF StatsUpTo
  <1> HIDE DEF p
  <1> QED BY <1>1, <1>3, <1>4, <1>6, <1>7

\* record_file_op for a decryption: three windows, four alarms.
LEMMA DecryptFacts ==
  ASSUME NEW k \in Nat, NEW s \in StatsUpTo(k), NEW now \in 0..k, NEW bytes \in Nat
  PROVE  /\ record_decrypt(s, now, bytes) \in StatsUpTo(k)
         /\ Extends(s, record_decrypt(s, now, bytes), now)
         /\ Heard(s) => Heard(record_decrypt(s, now, bytes))
         /\ record_decrypt(s, now, bytes).known = s.known
  <1> DEFINE f == AnyFileOp(s, now)
             all == DecryptWindows(f, now, bytes)
             burst == TripIf(Len(all.decrypts) >= BurstThreshold, all, "burst", LockBulk, now)
             loud == VolumeThreshold > 0 /\ WindowBytes(burst.sizes) >= VolumeThreshold
             volume == TripIf(loud, burst, "volume", LockBulk, now)
             r == TripIf(Deviates(volume, bytes), volume, "burst", LockTime, now)
  <1>1. record_decrypt(s, now, bytes) = r
    BY DEF record_decrypt
  <1>2. f \in StatsUpTo(k) /\ Extends(s, f, now) /\ (Heard(s) => Heard(f)) /\ f.known = s.known
    BY AnyFileOpFacts
  <1> HIDE DEF f
  <1>3. /\ all \in StatsUpTo(k)
        /\ all.until = f.until /\ all.last = f.last /\ all.known = f.known
        /\ all.failed = f.failed /\ all.files = f.files
        /\ all.decrypts # <<>> /\ Last(all.decrypts) = now
        /\ all.sizes # <<>> /\ Last(all.sizes).at = now
    BY <1>2, DecryptWindowsFacts
  <1> HIDE DEF all
  <1>4. /\ burst \in StatsUpTo(k) /\ SameWindows(all, burst) /\ Extends(all, burst, now)
        /\ Len(all.decrypts) >= BurstThreshold => now - burst.last["burst"] <= Cooldown
    BY <1>3, TripIfFacts DEF Alarms
  <1> HIDE DEF burst, loud
  <1>5. /\ volume \in StatsUpTo(k) /\ SameWindows(burst, volume) /\ Extends(burst, volume, now)
        /\ loud => now - volume.last["volume"] <= Cooldown
    BY <1>4, TripIfFacts DEF Alarms
  <1> HIDE DEF volume
  <1>6. r \in StatsUpTo(k) /\ SameWindows(volume, r) /\ Extends(volume, r, now)
    BY <1>5, TripIfFacts DEF Alarms
  <1> HIDE DEF r
  <1>7. Extends(f, all, now)
    BY <1>2, <1>3, ExtendsSame
  <1>8. Extends(s, all, now)
    BY <1>2, <1>3, <1>7, ExtendsTwice
  <1>9. Extends(s, burst, now)
    BY <1>3, <1>4, <1>8, ExtendsTwice
  <1>10. Extends(s, volume, now)
    BY <1>4, <1>5, <1>9, ExtendsTwice
  <1>11. Extends(s, r, now)
    BY <1>5, <1>6, <1>10, ExtendsTwice
  <1>12. BurstHeard(burst)
    BY <1>3, <1>4 DEF BurstHeard, SameWindows
  <1>13. BurstHeard(volume) /\ VolumeHeard(volume)
    <2>1. BurstHeard(volume)
      BY <1>4, <1>5, <1>12, HeardStays DEF SameWindows
    <2>2. VolumeHeard(volume)
      BY <1>3, <1>4, <1>5 DEF VolumeHeard, SameWindows, loud
    <2> QED BY <2>1, <2>2
  <1>14. BurstHeard(r) /\ VolumeHeard(r)
    BY <1>5, <1>6, <1>13, HeardStays DEF SameWindows
  <1>15. Extends(f, r, now)
    <2>1. Extends(f, burst, now)
      BY <1>2, <1>3, <1>4, <1>7, ExtendsTwice
    <2>2. Extends(f, volume, now)
      BY <1>2, <1>4, <1>5, <2>1, ExtendsTwice
    <2> QED BY <1>2, <1>5, <1>6, <2>2, ExtendsTwice
  <1>16. r.failed = f.failed /\ r.files = f.files /\ r.known = s.known
    BY <1>2, <1>3, <1>4, <1>5, <1>6 DEF SameWindows
  <1>17. Heard(s) => Heard(r)
    BY <1>2, <1>6, <1>14, <1>15, <1>16, HeardStays DEF Heard
  <1> QED BY <1>1, <1>6, <1>11, <1>16, <1>17

\* Any handler, on the statistics it meets, whatever its clock sample.
LEMMA HandledFacts ==
  ASSUME NEW k \in Nat, NEW s \in StatsUpTo(k), NEW c \in CallsUpTo(k)
  PROVE  /\ Handled(s, c) \in StatsUpTo(k)
         /\ Heard(s) => Heard(Handled(s, c))
         /\ c.op # "unlock" => Extends(s, Handled(s, c), c.now) /\ Handled(s, c).known
         /\ c.op = "unlock" => /\ Handled(s, c).until = 0 /\ Handled(s, c).last = s.last
                               /\ Handled(s, c).known = s.known
  <1> DEFINE e == [s EXCEPT !.known = TRUE]
             z == [s EXCEPT !.until = 0, !.strike = 0]
  <1>1. /\ c.op \in {"success", "failure", "encrypt", "decrypt", "unlock"}
        /\ c.now \in 0..k /\ c.bytes \in Nat
    BY DEF CallsUpTo
  <1>2. /\ e \in StatsUpTo(k) /\ e.known = TRUE /\ e.until = s.until /\ e.last = s.last
        /\ e.failed = s.failed /\ e.files = s.files /\ e.decrypts = s.decrypts
        /\ e.sizes = s.sizes
    BY ZenonT(60) DEF StatsUpTo
  <1>3. /\ z \in StatsUpTo(k) /\ z.known = s.known /\ z.until = 0 /\ z.last = s.last
        /\ z.failed = s.failed /\ z.files = s.files /\ z.decrypts = s.decrypts
        /\ z.sizes = s.sizes
    <2>1. PICK n : n = 0
      OBVIOUS
    <2> DEFINE y == [s EXCEPT !.until = n, !.strike = n]
    <2>2. n \in Nat /\ n \in 0..1000
      BY <2>1
    <2>3. /\ y \in StatsUpTo(k) /\ y.known = s.known /\ y.until = n /\ y.last = s.last
          /\ y.failed = s.failed /\ y.files = s.files /\ y.decrypts = s.decrypts
          /\ y.sizes = s.sizes
      BY <2>2, ZenonT(60) DEF StatsUpTo
    <2>4. y = z
      BY <2>1
    <2> HIDE DEF y, z
    <2> QED BY <2>1, <2>3, <2>4
  <1>4. /\ c.op = "success" => Handled(s, c) = record_login_success(e, c.now)
        /\ c.op = "failure" => Handled(s, c) = record_login_failure(e, c.now)
        /\ c.op = "encrypt" => Handled(s, c) = AnyFileOp(e, c.now)
        /\ c.op = "decrypt" => Handled(s, c) = record_decrypt(e, c.now, c.bytes)
        /\ c.op = "unlock"  => Handled(s, c) = z
    BY DEF Handled
  <1> HIDE DEF e, z
  <1>5. Heard(s) => Heard(e) /\ Heard(z)
    BY <1>2, <1>3 DEF Heard, FailedHeard, BulkHeard, BurstHeard, VolumeHeard
  <1>6. Extends(s, e, c.now)
    BY <1>2, ExtendsSame
  <1>7. ASSUME NEW r \in StatsUpTo(k), Extends(e, r, c.now), Heard(e) => Heard(r),
               r.known = e.known
        PROVE  Extends(s, r, c.now) /\ (Heard(s) => Heard(r)) /\ r.known
    BY <1>1, <1>2, <1>5, <1>6, <1>7, ExtendsTwice
  <1>8. CASE c.op = "success"
    BY <1>1, <1>2, <1>4, <1>7, <1>8, LoginSuccessFacts
  <1>9. CASE c.op = "failure"
    BY <1>1, <1>2, <1>4, <1>7, <1>9, LoginFailureFacts
  <1>10. CASE c.op = "encrypt"
    BY <1>1, <1>2, <1>4, <1>7, <1>10, AnyFileOpFacts
  <1>11. CASE c.op = "decrypt"
    BY <1>1, <1>2, <1>4, <1>7, <1>11, DecryptFacts
  <1>12. CASE c.op = "unlock"
    BY <1>3, <1>4, <1>5, <1>12
  <1> QED BY <1>1, <1>8, <1>9, <1>10, <1>11, <1>12

-----------------------------------------------------------------------------
(* The steps of one user *)

\* Any handler leaves the user sound; unlock_user lifts what has gone off.
LEMMA HandledSound ==
  ASSUME NEW k \in Nat, NEW s \in StatsUpTo(k), NEW c \in CallsUpTo(k), NEW l \in 0..k,
         Sound(s, l)
  PROVE  /\ Sound(Handled(s, c), IF c.op = "unlock" THEN k ELSE l)
         /\ c.op # "unlock" => Handled(s, c).until >= s.until
         /\ c.op = "unlock" => Handled(s, c).until = 0
         /\ c.op = "unlock" /\ ~s.known => Handled(s, c).until = s.until
  <1> DEFINE r == Handled(s, c)
  <1>1. /\ r \in StatsUpTo(k)
        /\ Heard(s) => Heard(r)
        /\ c.op # "unlock" => Extends(s, r, c.now) /\ r.known
        /\ c.op = "unlock" => r.until = 0 /\ r.last = s.last /\ r.known = s.known
    BY HandledFacts
  <1> HIDE DEF r
  <1>2. /\ s.until \in Nat /\ r.until \in Nat
        /\ \A a \in Alarms : s.last[a] \in 0..k /\ r.last[a] \in 0..k
    BY <1>1 DEF StatsUpTo
  <1>3. c.now \in 0..k
    BY DEF CallsUpTo
  <1>4. Shortest \in Nat
    BY ShortestLock
  <1>5. CASE c.op = "unlock"
    <2>1. Locked(r, k)
      BY <1>2 DEF Locked
    <2> QED BY <1>1, <1>5, <2>1 DEF Sound, r
  <1>6. CASE c.op # "unlock"
    <2>1. ASSUME NEW a \in Alarms
          PROVE  r.last[a] <= l \/ r.until >= r.last[a] + Shortest
      <3>1. s.last[a] <= l \/ s.until >= s.last[a] + Shortest
        BY DEF Sound, Locked
      <3>2. r.until >= s.until
        BY <1>1, <1>6 DEF Extends
      <3>3. r.last[a] = s.last[a] \/ (r.last[a] = c.now /\ r.until >= c.now + Shortest)
        BY <1>1, <1>6 DEF Extends
      <3>4. s.last[a] \in Nat /\ r.last[a] \in Nat
        BY <1>2
      <3> QED BY <1>2, <1>4, <3>1, <3>2, <3>3, <3>4
    <2>2. Locked(r, l)
      BY <2>1 DEF Locked
    <2>3. r.until >= s.until
      BY <1>1, <1>6 DEF Extends
    <2> QED BY <1>1, <1>6, <2>2, <2>3 DEF Sound, r
  <1> QED BY <1>5, <1>6

\* What save_stats writes of a sound user.
LEMMA SavedFacts ==
  ASSUME NEW k \in Nat, NEW s \in StatsUpTo(k), s.known \/ s.until = 0
  PROVE  Saved(s) \in SavedType /\ Saved(s).until = s.until
  <1>1. s.known \in BOOLEAN /\ s.logins \in Nat /\ s.hours \in [Hours -> Nat] /\ s.until \in Nat
    BY DEF StatsUpTo
  <1> QED BY <1>1 DEF Saved, SavedType

\* A new entry: nothing counted, no alarm, no lock.
LEMMA NewEntry ==
  ASSUME NEW k \in Nat
  PROVE  /\ UserStats \in StatsUpTo(k) /\ UserStats.failed = <<>> /\ UserStats.files = <<>>
         /\ UserStats.decrypts = <<>> /\ UserStats.sizes = <<>> /\ UserStats.until = 0
         /\ UserStats.last = [a \in Alarms |-> 0]
  <1>1. <<>> \in Seq(0..k) /\ <<>> \in Seq(Entries(k)) /\ 0 \in Nat /\ 0 \in 0..1000
        /\ [h \in Hours |-> 0] \in [Hours -> Nat] /\ [a \in Alarms |-> 0] \in [Alarms -> 0..k]
    BY EmptySeq
  <1> QED BY <1>1 DEF UserStats, StatsUpTo

\* Empty windows and no alarm are sound.
LEMMA EmptySound ==
  ASSUME NEW s, NEW k \in Nat, NEW l \in 0..k, s.known \/ s.until = 0,
         s.failed = <<>>, s.files = <<>>, s.decrypts = <<>>, s.sizes = <<>>,
         s.last = [a \in Alarms |-> 0]
  PROVE  Sound(s, l)
  BY DEF Sound, Heard, FailedHeard, BulkHeard, BurstHeard, VolumeHeard, Locked

\* load_stats: the windows and the alarms start afresh.
LEMMA LoadedFacts ==
  ASSUME NEW k \in Nat, NEW e \in SavedType, NEW l \in 0..k
  PROVE  /\ Loaded(e) \in StatsUpTo(k) /\ Sound(Loaded(e), l)
         /\ Loaded(e).until = e.until
  <1>1. /\ e.known \in BOOLEAN /\ e.logins \in Nat /\ e.hours \in [Hours -> Nat]
        /\ e.until \in Nat /\ (e.known \/ e.until = 0)
    BY DEF SavedType
  <1>2. PICK n : n = UserStats
    OBVIOUS
  <1>3. /\ n \in StatsUpTo(k) /\ n.failed = <<>> /\ n.files = <<>> /\ n.decrypts = <<>>
        /\ n.sizes = <<>> /\ n.last = [a \in Alarms |-> 0]
    BY <1>2, NewEntry
  <1> DEFINE x == [n EXCEPT !.known = e.known, !.logins = e.logins, !.hours = e.hours,
                            !.until = e.until]
  <1>4. ASSUME NEW known \in BOOLEAN, NEW logins \in Nat, NEW hours \in [Hours -> Nat],
               NEW until \in Nat, NEW m \in StatsUpTo(k)
        PROVE  [m EXCEPT !.known = known, !.logins = logins, !.hours = hours,
                         !.until = until] \in StatsUpTo(k)
    BY ZenonT(60) DEF StatsUpTo
  <1>5. x \in StatsUpTo(k)
    BY <1>1, <1>3, <1>4
  <1>6. /\ x.known = e.known /\ x.until = e.until /\ x.failed = n.failed /\ x.files = n.files
        /\ x.decrypts = n.decrypts /\ x.sizes = n.sizes /\ x.last = n.last
    BY <1>3 DEF StatsUpTo
  <1>7. Loaded(e) = x
    BY <1>2 DEF Loaded
  <1> HIDE DEF x
  <1>8. Sound(x, l)
    BY <1>1, <1>3, <1>6, EmptySound
  <1> QED BY <1>5, <1>6, <1>7, <1>8

\* Time passes.
LEMMA LaterFacts ==
  ASSUME NEW k \in Nat
  PROVE  StatsUpTo(k) \subseteq StatsUpTo(k + 1) /\ CallsUpTo(k) \subseteq CallsUpTo(k + 1)
  <1>1. 0..k \subseteq 0..(k + 1)
    OBVIOUS
  <1>2. Entries(k) \subseteq Entries(k + 1)
    BY <1>1 DEF Entries
  <1>3. Seq(0..k) \subseteq Seq(0..(k + 1)) /\ Seq(Entries(k)) \subseteq Seq(Entries(k + 1))
    BY <1>1, <1>2, SeqMonotonic
  <1>4. [Alarms -> 0..k] \subseteq [Alarms -> 0..(k + 1)]
    BY <1>1
  <1>5. CallsUpTo(k) \subseteq CallsUpTo(k + 1)
    BY <1>1 DEF CallsUpTo
  <1>6. ASSUME NEW A, NEW B, A \subseteq B, NEW C, NEW D, C \subseteq D, NEW E, NEW F,
               E \subseteq F
        PROVE  [known : BOOLEAN, logins : Nat, hours : [Hours -> Nat],
                failed : A, files : A, decrypts : A, sizes : C, ops : Nat, bytes : Nat,
                last : E, strike : 0..1000, until : Nat]
               \subseteq
               [known : BOOLEAN, logins : Nat, hours : [Hours -> Nat],
                failed : B, files : B, decrypts : B, sizes : D, ops : Nat, bytes : Nat,
                last : F, strike : 0..1000, until : Nat]
    BY <1>6
  <1>7. StatsUpTo(k) \subseteq StatsUpTo(k + 1)
    BY <1>3, <1>4, <1>6 DEF StatsUpTo
  <1> QED BY <1>5, <1>7

-----------------------------------------------------------------------------
(* The system *)

\* The monitor starts with no user known.
LEMMA InitInv == Init => IInv
  <1> SUFFICES ASSUME Init PROVE IInv
    OBVIOUS
  <1>1. Cooldown \in Nat /\ MaxClock \in Nat /\ MaxCalls \in Nat /\ MaxRestarts \in Nat
        /\ Cooldown < MaxClock
    BY MonitorAssumption
  <1>2. PICK k : k = clock
    OBVIOUS
  <1>3. k \in Nat /\ k \in 0..MaxClock /\ 0 \in 0..k
    BY <1>1, <1>2 DEF Init
  <1>4. PICK e : e = Saved(UserStats)
    OBVIOUS
  <1>5. e \in SavedType /\ e.until = 0
    BY <1>4 DEF Saved, UserStats, SavedType
  <1>6. UserStats \in StatsUpTo(k) /\ UserStats.until = 0
    BY <1>3, NewEntry
  <1>7. Sound(UserStats, 0)
    BY <1>3, NewEntry, EmptySound
  <1>8. MonitorTypes
    <2>1. stats \in [Users -> StatsUpTo(clock)]
      BY <1>2, <1>6 DEF Init
    <2>2. stored \in [Users -> SavedType]
      BY <1>4, <1>5 DEF Init
    <2>3. cleared \in [Users -> 0..clock]
      BY <1>2, <1>3 DEF Init
    <2>4. calls \in [Threads -> CallsUpTo(clock) \cup {NoCall}]
      BY DEF Init
    <2>5. clock \in 0..MaxClock /\ made \in 0..MaxCalls /\ restarts \in 0..MaxRestarts
          /\ intact \in BOOLEAN
      BY <1>1, <1>2, <1>3 DEF Init
    <2> QED BY <2>1, <2>2, <2>3, <2>4, <2>5 DEF MonitorTypes
  <1>9. UsersSound
    BY <1>7 DEF UsersSound, Init
  <1>10. FileHasLocks
    BY <1>4, <1>5, <1>6 DEF FileHasLocks, Init
  <1> QED BY <1>8, <1>9, <1>10 DEF IInv

\* The types of one user, and of the clock.
LEMMA UserTypes ==
  ASSUME IInv
  PROVE  /\ clock \in Nat
         /\ \A u \in Users : /\ stats[u] \in StatsUpTo(clock) /\ stored[u] \in SavedType
                             /\ cleared[u] \in 0..clock /\ Sound(stats[u], cleared[u])
         /\ \A t \in Threads : calls[t] # NoCall => calls[t] \in CallsUpTo(clock)
  <1>1. clock \in Nat
    BY RunBounds DEF IInv, MonitorTypes
  <1> QED BY <1>1 DEF IInv, MonitorTypes, UsersSound

\* A thread reads the clock: the sample it keeps has passed.
LEMMA CallInv ==
  ASSUME IInv, NEW t \in Threads, NEW u \in Users, NEW bytes \in Nat,
         NEW op \in {"success", "failure", "encrypt", "decrypt", "unlock"},
         Call(t, op, u, bytes)
  PROVE  IInv'
  <1>1. MonitorTypes'
    <2>1. clock \in Nat /\ clock \in 0..clock
      BY UserTypes
    <2>2. [op |-> op, user |-> u, now |-> clock, bytes |-> bytes] \in CallsUpTo(clock)
      BY <2>1 DEF CallsUpTo
    <2>3. calls' \in [Threads -> CallsUpTo(clock) \cup {NoCall}]
      BY <2>2 DEF IInv, MonitorTypes, Call
    <2>4. made' \in 0..MaxCalls
      BY RunBounds DEF IInv, MonitorTypes, Call
    <2> QED BY <2>3, <2>4 DEF IInv, MonitorTypes, Call
  <1>2. UsersSound' /\ FileHasLocks'
    BY DEF IInv, UsersSound, FileHasLocks, Call
  <1> QED BY <1>1, <1>2 DEF IInv

\* The body of a handler runs and saves, or fails to.
LEMMA BodyInv ==
  ASSUME IInv, NEW t \in Threads, Body(t)
  PROVE  IInv'
  <1> DEFINE c == calls[t]
             v == c.user
             h == Handled(stats[v], c)
  <1>1. /\ clock \in Nat /\ c \in CallsUpTo(clock) /\ v \in Users
        /\ stats[v] \in StatsUpTo(clock) /\ cleared[v] \in 0..clock
        /\ Sound(stats[v], cleared[v])
    <2>1. clock \in Nat /\ c \in CallsUpTo(clock)
      BY UserTypes DEF Body
    <2>2. v \in Users
      BY <2>1 DEF CallsUpTo
    <2> QED BY <2>1, <2>2, UserTypes
  <1>2. h \in StatsUpTo(clock)
    BY <1>1, HandledFacts
  <1>3. /\ Sound(h, IF c.op = "unlock" THEN clock ELSE cleared[v])
        /\ c.op = "unlock" /\ ~stats[v].known => h.until = stats[v].until
    BY <1>1, HandledSound
  <1>4. /\ stats' = [stats EXCEPT ![v] = h]
        /\ cleared' = IF c.op = "unlock" THEN [cleared EXCEPT ![v] = clock] ELSE cleared
        /\ IF EarlyReturn(c) THEN UNCHANGED <<stored, intact>> ELSE save_stats
        /\ calls' = [calls EXCEPT ![t] = NoCall]
        /\ UNCHANGED <<clock, made, restarts>>
    BY DEF Body
  <1>5. EarlyReturn(c) => h.until = stats[v].until
    BY <1>3 DEF EarlyReturn
  <1> HIDE DEF h, c, v
  <1>6. ASSUME NEW u \in Users
        PROVE  /\ stats'[u] = IF u = v THEN h ELSE stats[u]
               /\ stats'[u] \in StatsUpTo(clock) /\ cleared'[u] \in 0..clock
               /\ Sound(stats'[u], cleared'[u])
    <2>1. stats'[u] = IF u = v THEN h ELSE stats[u]
      BY <1>4 DEF IInv, MonitorTypes
    <2>2. cleared'[u] = IF u = v /\ c.op = "unlock" THEN clock ELSE cleared[u]
      BY <1>4 DEF IInv, MonitorTypes
    <2>3. stats[u] \in StatsUpTo(clock) /\ cleared[u] \in 0..clock /\ Sound(stats[u], cleared[u])
      BY UserTypes
    <2>4. clock \in 0..clock
      BY <1>1
    <2> QED BY <1>2, <1>3, <2>1, <2>2, <2>3, <2>4
  <1>7. stats' \in [Users -> StatsUpTo(clock)] /\ cleared' \in [Users -> 0..clock]
    BY <1>1, <1>2, <1>4 DEF IInv, MonitorTypes
  <1>8. stored' \in [Users -> SavedType] /\ intact' \in BOOLEAN /\ FileHasLocks'
    <2>1. CASE EarlyReturn(c)
      <3>1. \A u \in Users : stats'[u].until = stats[u].until
        BY <1>5, <1>6, <2>1
      <3> QED BY <1>4, <2>1, <3>1 DEF IInv, MonitorTypes, FileHasLocks
    <2>2. CASE ~EarlyReturn(c) /\ stored' = stored /\ intact' = FALSE
      BY <2>2 DEF IInv, MonitorTypes, FileHasLocks
    <2>3. CASE stored' = [u \in Users |-> Saved(stats'[u])] /\ intact' = TRUE
      <3>1. ASSUME NEW u \in Users
            PROVE  Saved(stats'[u]) \in SavedType /\ Saved(stats'[u]).until = stats'[u].until
        BY <1>1, <1>6, SavedFacts DEF Sound
      <3>2. \A u \in Users : stored'[u] = Saved(stats'[u])
        BY <2>3
      <3> QED BY <2>3, <3>1, <3>2 DEF FileHasLocks
    <2> QED BY <1>4, <2>1, <2>2, <2>3 DEF save_stats
  <1>9. calls' \in [Threads -> CallsUpTo(clock) \cup {NoCall}]
    BY <1>4 DEF IInv, MonitorTypes
  <1>10. MonitorTypes'
    BY <1>4, <1>7, <1>8, <1>9 DEF IInv, MonitorTypes
  <1>11. UsersSound'
    BY <1>6 DEF UsersSound
  <1> QED BY <1>8, <1>10, <1>11 DEF IInv

\* Time passes.
LEMMA TickInv ==
  ASSUME IInv, Tick
  PROVE  IInv'
  <1>1. clock \in Nat /\ clock' = clock + 1
    BY UserTypes DEF Tick
  <1>2. /\ StatsUpTo(clock) \subseteq StatsUpTo(clock') /\ CallsUpTo(clock) \subseteq CallsUpTo(clock')
        /\ 0..clock \subseteq 0..clock'
    BY <1>1, LaterFacts
  <1>3. clock' \in 0..MaxClock
    BY <1>1, RunBounds DEF Tick
  <1>4. stats' \in [Users -> StatsUpTo(clock')] /\ cleared' \in [Users -> 0..clock']
        /\ calls' \in [Threads -> CallsUpTo(clock') \cup {NoCall}]
    BY <1>2 DEF IInv, MonitorTypes, Tick
  <1>5. MonitorTypes'
    BY <1>3, <1>4 DEF IInv, MonitorTypes, Tick
  <1>6. UsersSound' /\ FileHasLocks'
    BY DEF IInv, UsersSound, FileHasLocks, Tick
  <1> QED BY <1>5, <1>6 DEF IInv

\* Whatever the file holds, loading it gives a sound state.
LEMMA LoadInv ==
  ASSUME IInv, stored' \in [Users -> SavedType], intact' \in BOOLEAN,
         restarts < MaxRestarts, restarts' = restarts + 1,
         stats' = [u \in Users |-> Loaded(stored'[u])],
         calls' = [t \in Threads |-> NoCall], UNCHANGED <<clock, made, cleared>>
  PROVE  IInv' /\ \A u \in Users : stats'[u].until = stored'[u].until
  <1>1. ASSUME NEW u \in Users
        PROVE  /\ stats'[u] \in StatsUpTo(clock) /\ Sound(stats'[u], cleared'[u])
               /\ stats'[u].until = stored'[u].until
    <2>1. stats'[u] = Loaded(stored'[u]) /\ stored'[u] \in SavedType
      OBVIOUS
    <2>2. clock \in Nat /\ cleared'[u] \in 0..clock
      BY UserTypes
    <2> QED BY <2>1, <2>2, LoadedFacts
  <1>2. stats' \in [Users -> StatsUpTo(clock)]
    BY <1>1
  <1>3. restarts' \in 0..MaxRestarts
    BY RunBounds DEF IInv, MonitorTypes
  <1>4. calls' \in [Threads -> CallsUpTo(clock) \cup {NoCall}]
    OBVIOUS
  <1>5. MonitorTypes'
    BY <1>2, <1>3, <1>4 DEF IInv, MonitorTypes
  <1>6. UsersSound' /\ FileHasLocks'
    BY <1>1 DEF UsersSound, FileHasLocks
  <1> QED BY <1>1, <1>5, <1>6 DEF IInv

\* A death inside save_stats leaves lines of sound users.
LEMMA DiesInSaveInv ==
  ASSUME IInv, NEW t \in Threads, DiesInSave(t)
  PROVE  IInv'
  <1> DEFINE c == calls[t]
             line(u) == Saved(IF u = c.user THEN Handled(stats[u], c) ELSE stats[u])
  <1>1. PICK written \in SUBSET Users :
          stored' = [u \in Users |-> IF u \notin written THEN Saved(UserStats) ELSE line(u)]
    BY DEF DiesInSave
  <1>2. clock \in Nat /\ c \in CallsUpTo(clock)
    BY UserTypes DEF DiesInSave
  <1>3. Saved(UserStats) \in SavedType
    BY DEF Saved, UserStats, SavedType
  <1> HIDE DEF c
  <1>4. ASSUME NEW u \in Users
        PROVE  line(u) \in SavedType
    <2>1. stats[u] \in StatsUpTo(clock) /\ cleared[u] \in 0..clock /\ Sound(stats[u], cleared[u])
      BY UserTypes
    <2>2. CASE u = c.user
      <3>1. Handled(stats[u], c) \in StatsUpTo(clock)
        BY <1>2, <2>1, HandledFacts
      <3>2. Sound(Handled(stats[u], c), IF c.op = "unlock" THEN clock ELSE cleared[u])
        BY <1>2, <2>1, HandledSound
      <3> QED BY <1>2, <2>2, <3>1, <3>2, SavedFacts DEF Sound
    <2>3. CASE u # c.user
      BY <1>2, <2>1, <2>3, SavedFacts DEF Sound
    <2> QED BY <2>2, <2>3
  <1> HIDE DEF line
  <1>5. stored' \in [Users -> SavedType]
    BY <1>1, <1>3, <1>4
  <1> QED BY <1>5, LoadInv DEF DiesInSave

\* Every step keeps the invariant.
LEMMA NextInv == IInv /\ [Next]_vars => IInv'
  <1> SUFFICES ASSUME IInv, [Next]_vars PROVE IInv'
    OBVIOUS
  <1>1. ASSUME NEW t \in Threads, NEW u \in Users,
               NEW op \in {"success", "failure", "encrypt", "unlock"}, Call(t, op, u, 0)
        PROVE  IInv'
    BY <1>1, CallInv
  <1>2. ASSUME NEW t \in Threads, NEW u \in Users, NEW bytes \in Sizes,
               Call(t, "decrypt", u, bytes)
        PROVE  IInv'
    <2>1. bytes \in Nat
      BY MonitorAssumption
    <2> QED BY <1>2, <2>1, CallInv
  <1>3. ASSUME NEW t \in Threads, Body(t)
        PROVE  IInv'
    BY <1>3, BodyInv
  <1>4. ASSUME NEW t \in Threads, DiesInSave(t)
        PROVE  IInv'
    BY <1>4, DiesInSaveInv
  <1>5. CASE Tick
    BY <1>5, TickInv
  <1>6. CASE Restart
    <2>1. stored' \in [Users -> SavedType] /\ intact' \in BOOLEAN
      BY <1>6 DEF IInv, MonitorTypes, Restart
    <2>2. stats' = [u \in Users |-> Loaded(stored'[u])]
      BY <1>6 DEF Restart
    <2> QED BY <1>6, <2>1, <2>2, LoadInv DEF Restart
  <1>7. CASE UNCHANGED vars
    BY <1>7 DEF vars, IInv, MonitorTypes, UsersSound, FileHasLocks
  <1> QED BY <1>1, <1>2, <1>3, <1>4, <1>5, <1>6, <1>7 DEF Next

\* The inductive invariant holds in every reachable state.
THEOREM InvariantCorrect == Spec => []IInv
  <1> QED BY InitInv, NextInv, PTL DEF Spec

\* Every variable keeps its type: in particular the strike level stays in its
\* range, and no sample is later than the clock.
THEOREM TypeCorrect == Spec => []TypeOK
  <1>1. IInv => TypeOK
    <2> SUFFICES ASSUME IInv PROVE TypeOK
      OBVIOUS
    <2>1. /\ clock \in 0..MaxClock /\ made \in 0..MaxCalls /\ restarts \in 0..MaxRestarts
          /\ MaxClock \in Nat
      BY RunBounds DEF IInv, MonitorTypes
    <2>2. 0..clock \subseteq 0..MaxClock
      BY <2>1
    <2>3. ASSUME NEW u \in Users
          PROVE  /\ stats[u].until \in Nat /\ stats[u].strike \in 0..1000
                 /\ stats[u].last \in [Alarms -> 0..MaxClock]
                 /\ \A q \in {stats[u].failed, stats[u].files, stats[u].decrypts} :
                      q \in Seq(0..MaxClock)
                 /\ stored[u].until \in Nat
                 /\ cleared[u] \in 0..MaxClock
      <3>1. stats[u] \in StatsUpTo(clock) /\ stored[u] \in SavedType /\ cleared[u] \in 0..clock
        BY UserTypes
      <3>2. /\ stats[u].until \in Nat /\ stats[u].strike \in 0..1000
            /\ stats[u].last \in [Alarms -> 0..clock] /\ stats[u].failed \in Seq(0..clock)
            /\ stats[u].files \in Seq(0..clock) /\ stats[u].decrypts \in Seq(0..clock)
        BY <3>1, ZenonT(60) DEF StatsUpTo
      <3>3. Seq(0..clock) \subseteq Seq(0..MaxClock)
        BY <2>2, SeqMonotonic
      <3>4. [Alarms -> 0..clock] \subseteq [Alarms -> 0..MaxClock]
        BY <2>2
      <3>5. stored[u].until \in Nat
        BY <3>1 DEF SavedType
      <3> QED BY <2>2, <3>1, <3>2, <3>3, <3>4, <3>5
    <2> QED BY <2>1, <2>3 DEF TypeOK
  <1> QED BY <1>1, InvariantCorrect, PTL

\* An alarm that went off has locked the account for at least the shortest
\* lock, counted from the alarm's own time, unless it was lifted since.
THEOREM AlarmsLock == Spec => []AlarmLocks
  <1>1. IInv => AlarmLocks
    BY DEF IInv, UsersSound, Sound, Locked, AlarmLocks, Shortest, Locks
  <1> QED BY <1>1, InvariantCorrect, PTL

\* No window stays over its threshold unless its alarm went off within the
\* cooldown before its newest entry, in whatever order the bodies ran.
THEOREM AlarmsHeard == Spec => []AlarmNotMissed
  <1>1. IInv => AlarmNotMissed
    BY DEF IInv, UsersSound, Sound, Heard, FailedHeard, BulkHeard, BurstHeard, VolumeHeard,
           AlarmNotMissed
  <1> QED BY <1>1, InvariantCorrect, PTL

\* A lock is shortened only by unlock_user or a restart: a body with a clock
\* sample older than the lock it meets extends that lock or leaves it.
THEOREM LocksKept == Spec => LockNeverShortened
  <1> DEFINE A == \A u \in Users :
                    restarts' = restarts /\ stats'[u].until < stats[u].until =>
                      stats'[u].until = 0 /\ cleared'[u] = clock
  <1>1. IInv /\ [Next]_vars => [A]_stats
    <2> SUFFICES ASSUME IInv, [Next]_vars, NEW u \in Users, stats' # stats, restarts' = restarts,
                        stats'[u].until < stats[u].until
                 PROVE  stats'[u].until = 0 /\ cleared'[u] = clock
      OBVIOUS
    <2>1. ASSUME NEW t \in Threads, Body(t)
          PROVE  stats'[u].until = 0 /\ cleared'[u] = clock
      <3> DEFINE c == calls[t]
                 h == Handled(stats[u], c)
      <3>1. clock \in Nat /\ c \in CallsUpTo(clock) /\ stats[u] \in StatsUpTo(clock)
            /\ cleared[u] \in 0..clock /\ Sound(stats[u], cleared[u])
        BY <2>1, UserTypes DEF Body
      <3>2. /\ h \in StatsUpTo(clock)
            /\ c.op # "unlock" => h.until >= stats[u].until
            /\ c.op = "unlock" => h.until = 0
        BY <3>1, HandledFacts, HandledSound
      <3>3. h.until \in Nat /\ stats[u].until \in Nat
        BY <3>1, <3>2 DEF StatsUpTo
      <3>4. /\ stats' = [stats EXCEPT ![c.user] = Handled(stats[c.user], c)]
            /\ cleared' = IF c.op = "unlock" THEN [cleared EXCEPT ![c.user] = clock] ELSE cleared
        BY <2>1 DEF Body
      <3> HIDE DEF c
      <3>5. u = c.user /\ stats'[u] = h
        BY <3>3, <3>4 DEF IInv, MonitorTypes
      <3> HIDE DEF h
      <3>6. c.op = "unlock"
        BY <3>2, <3>3, <3>5
      <3> QED BY <3>2, <3>4, <3>5, <3>6 DEF IInv, MonitorTypes
    <2>2. ~(Restart \/ \E t \in Threads : DiesInSave(t))
      BY DEF Restart, DiesInSave, IInv, MonitorTypes
    <2>3. ~(Tick \/ UNCHANGED vars \/ \E t, op, v, bytes : Call(t, op, v, bytes))
      BY DEF Tick, Call, vars
    <2> QED BY <2>1, <2>2, <2>3 DEF Next
  <1> QED BY <1>1, InvariantCorrect, PTL DEF Spec, LockNeverShortened

\* A restart brings back exactly the locks there were, unless the last
\* save_stats failed or the process ended in the middle of one.
THEOREM RestartsKeep == Spec => RestartKeepsLocks
  <1> DEFINE B == restarts' # restarts /\ intact /\ intact' =>
                    \A u \in Users : stats'[u].until = stats[u].until
  <1>1. IInv /\ [Next]_vars => [B]_restarts
    <2> SUFFICES ASSUME IInv, [Next]_vars, restarts' # restarts, intact, intact', NEW u \in Users
                 PROVE  stats'[u].until = stats[u].until
      OBVIOUS
    <2>1. CASE Restart
      <3>1. stats'[u] = Loaded(stored[u]) /\ stored[u] \in SavedType /\ clock \in Nat
            /\ cleared[u] \in 0..clock
        BY <2>1, UserTypes DEF Restart
      <3>2. stats'[u].until = stored[u].until
        BY <3>1, LoadedFacts
      <3> QED BY <3>2 DEF IInv, FileHasLocks
    <2>2. ~ \E t \in Threads : DiesInSave(t)
      BY DEF DiesInSave
    <2>3. ~(Tick \/ UNCHANGED vars \/ (\E t \in Threads : Body(t))
              \/ \E t, op, v, bytes : Call(t, op, v, bytes))
      BY DEF Tick, Call, Body, vars
    <2> QED BY <2>1, <2>2, <2>3 DEF Next
  <1> QED BY <1>1, InvariantCorrect, PTL DEF Spec, RestartKeepsLocks
=============================================================================
